---------------------------- MODULE Spec2Model ----------------------------
(***************************************************************************)
(* Model of the python-datamodel Rust extensions:                          *)
(*   rs_parsers      (src/datamodel/rs_parsers/src/lib.rs)                 *)
(*   rst_converters  (src/datamodel/rst_converters/src/lib.rs)             *)
(*   rs_core         (src/datamodel/rs_core/src/lib.rs)                    *)
(*                                                                         *)
(* Text is modelled as a sequence of one-character strings, so that        *)
(* trimming, case folding and pattern parsing are computed character by    *)
(* character.  The behaviours specified:                                   *)
(*   SpecBool      the two strtobool truth tables,                         *)
(*   SpecTemporal  the to_date / to_datetime cascades,                     *)
(*   Spec          validate_datamodel and parse_datamodel on a record,     *)
(*   SpecPool      parse_datamodel's worker pool on records that pass      *)
(*                 get_field_info,                                         *)
(*   SpecStamp     the two to_timestamp conversions,                       *)
(*   SpecCoerce    the scalar coercers applied to Python objects, one      *)
(*                 step per activation (SpecCoerceFair: under weak         *)
(*                 fairness).                                              *)
(***************************************************************************)
EXTENDS Integers, Sequences, FiniteSets, TLC

VARIABLES
    val,            \* strtobool: the input text
    bres,           \* strtobool: result per implementation (BoolNone before the call)
    input,          \* to_date / to_datetime: the input text
    custom_format,  \* to_date / to_datetime: the caller's format, or NoFormat
    tres,           \* to_date / to_datetime: the outcome of the call made
    record,         \* the dataclass instance: a sequence of field descriptors
    pc,             \* orchestrator: position of the caller
    vresult,        \* validate_datamodel's return value
    presult,        \* parse_datamodel's return value
    field_infos,    \* parse_datamodel: Vec<RustFieldInfo> built by get_field_info
    slots,          \* parse_datamodel: the collect buffer of the parallel map
    claimed,        \* parse_datamodel: item each pool worker holds (0: none)
    completed,      \* parse_datamodel: items in the order the workers finished them
    timestamp,      \* to_timestamp: the f64 argument
    sres,           \* to_timestamp: result per implementation
    entry,          \* scalar coercers: the entry point called
    obj,            \* scalar coercers: the argument of the innermost call
    depth,          \* scalar coercers: nested calls of the entry point
    invoked,        \* scalar coercers: callables invoked so far, in order
    parsed,         \* scalar coercers: parsers invoked so far, in order
    cres            \* scalar coercers: the outcome of the call

boolVars == <<val, bres>>
tempVars == <<input, custom_format, tres>>
orchVars == <<record, pc, vresult, presult, field_infos, slots, claimed, completed>>
stampVars == <<timestamp, sres>>
coerceVars == <<entry, obj, depth, invoked, parsed, cres>>
vars == <<val, bres, input, custom_format, tres,
          record, pc, vresult, presult, field_infos, slots, claimed, completed,
          timestamp, sres, entry, obj, depth, invoked, parsed, cres>>

\* The state of the entry points a behaviour does not exercise.
IdleStamp == timestamp = "idle" /\ sres = "idle"
IdleCoerce ==
    /\ entry = "idle" /\ obj = "idle" /\ depth = 0
    /\ invoked = <<>> /\ parsed = <<>> /\ cres = "idle"

---------------------------------------------------------------------------
(* Text: sequences of characters.                                          *)

UpperChars == <<"A","B","C","D","E","F","G","H","I","J","K","L","M",
                "N","O","P","Q","R","S","T","U","V","W","X","Y","Z">>
LowerChars == <<"a","b","c","d","e","f","g","h","i","j","k","l","m",
                "n","o","p","q","r","s","t","u","v","w","x","y","z">>

\* char::is_whitespace restricted to the ASCII characters the inputs use.
WhiteSpace == {" ", "\t", "\n"}

LowerChar(c) ==
    IF \E i \in 1..26 : UpperChars[i] = c
    THEN LowerChars[CHOOSE i \in 1..26 : UpperChars[i] = c]
    ELSE c

UpperChar(c) ==
    IF \E i \in 1..26 : LowerChars[i] = c
    THEN UpperChars[CHOOSE i \in 1..26 : LowerChars[i] = c]
    ELSE c

\* str::to_lowercase
ToLowercase(s) == [i \in 1..Len(s) |-> LowerChar(s[i])]

\* str::trim_start / str::trim
RECURSIVE TrimStart(_)
TrimStart(s) ==
    IF s # <<>> /\ Head(s) \in WhiteSpace THEN TrimStart(Tail(s)) ELSE s

RECURSIVE TrimEnd(_)
TrimEnd(s) ==
    IF s # <<>> /\ s[Len(s)] \in WhiteSpace
    THEN TrimEnd(SubSeq(s, 1, Len(s) - 1))
    ELSE s

Trim(s) == TrimEnd(TrimStart(s))

\* `needle` occurs in `hay` as a contiguous run of characters.
Contains(hay, needle) ==
    \E i \in 1..(Len(hay) - Len(needle) + 1) :
        SubSeq(hay, i, i + Len(needle) - 1) = needle

\* PyResult<bool>: Ok(value), or Err carrying the exception's message.  A call
\* not made yet holds BoolNone.  (value is FALSE where there is none, so that
\* results stay comparable.)
BoolOk(b) == [st |-> "ok", value |-> b, msg |-> <<>>]
BoolErr(m) == [st |-> "err", value |-> FALSE, msg |-> m]
BoolNone == [st |-> "none", value |-> FALSE, msg |-> <<>>]

---------------------------------------------------------------------------
(* strtobool                                                               *)

TruthyTokens ==
    { <<"y">>, <<"y","e","s">>, <<"t">>, <<"t","r","u","e">>, <<"o","n">>, <<"1">> }
FalsyTokens ==
    { <<"n">>, <<"n","o">>, <<"f">>, <<"f","a","l","s","e">>, <<"o","f","f">>, <<"0">> }
NoneTokens ==
    { <<"n","o","n","e">>, <<"n","u","l","l">> }

MsgInvalidBooleanString ==
    <<"I","n","v","a","l","i","d"," ","b","o","o","l","e","a","n"," ",
      "s","t","r","i","n","g",":"," ","'">>
MsgInvalidTruthValue ==
    <<"I","n","v","a","l","i","d"," ","t","r","u","t","h"," ",
      "v","a","l","u","e"," ","f","o","r"," ","'">>

\* A slip the claims must detect: the match is made on the trimmed text
\* without folding its case.
parsers_strtobool_nofold(v) ==
    LET t == Trim(v) IN
    IF t \in TruthyTokens THEN BoolOk(TRUE)
    ELSE IF t \in FalsyTokens \cup NoneTokens THEN BoolOk(FALSE)
    ELSE BoolErr(MsgInvalidBooleanString \o v \o <<"'">>)

\* rs_parsers::strtobool
parsers_strtobool(v) ==
    LET t == ToLowercase(Trim(v)) IN
    IF t \in TruthyTokens THEN BoolOk(TRUE)
    ELSE IF t \in FalsyTokens \cup NoneTokens THEN BoolOk(FALSE)
    ELSE BoolErr(MsgInvalidBooleanString \o v \o <<"'">>)

\* rst_converters::strtobool
converters_strtobool(v) ==
    LET lower_val == ToLowercase(Trim(v)) IN
    IF lower_val \in TruthyTokens THEN BoolOk(TRUE)
    ELSE IF lower_val \in FalsyTokens THEN BoolOk(FALSE)
    ELSE BoolErr(MsgInvalidTruthValue \o v \o <<"'">>)

(* Inputs of strtobool: a word, in one of three casings, between paddings  *)
(* of at most MaxPad whitespace characters.                                *)
MaxPad == 1

BoolWords ==
    TruthyTokens \cup FalsyTokens \cup NoneTokens \cup
    { <<>>, <<"m","a","y","b","e">>, <<"2">>, <<"1","0">>, <<"y","e">>,
      <<"y","e","s","s">>, <<"t","r","u">>, <<"o","f">>, <<"n","u","l">>,
      <<"o"," ","n">>, <<"n","o","n","e","s">> }

Capitalised(s) == [i \in 1..Len(s) |-> IF i = 1 THEN UpperChar(s[i]) ELSE s[i]]
Uppercased(s) == [i \in 1..Len(s) |-> UpperChar(s[i])]
Casings(s) == { s, Capitalised(s), Uppercased(s) }

Pads == UNION { [1..n -> {" ", "\t"}] : n \in 0..MaxPad }

BoolInputs ==
    { l \o c \o r : l \in Pads, r \in Pads, c \in UNION { Casings(w) : w \in BoolWords } }

BoolImpls == {"rs_parsers", "rst_converters"}

InitBool ==
    /\ val \in BoolInputs
    /\ bres = [i \in BoolImpls |-> BoolNone]
    /\ input = <<>> /\ custom_format = "idle" /\ tres = "idle"
    /\ record = <<>> /\ pc = "idle" /\ vresult = "idle" /\ presult = "idle"
    /\ field_infos = <<>> /\ slots = <<>> /\ claimed = <<>> /\ completed = <<>>
    /\ IdleStamp /\ IdleCoerce

CallParsersStrtobool ==
    /\ bres["rs_parsers"] = BoolNone
    /\ bres' = [bres EXCEPT !["rs_parsers"] = parsers_strtobool(val)]
    /\ UNCHANGED <<val, tempVars, orchVars, stampVars, coerceVars>>

CallConvertersStrtobool ==
    /\ bres["rst_converters"] = BoolNone
    /\ bres' = [bres EXCEPT !["rst_converters"] = converters_strtobool(val)]
    /\ UNCHANGED <<val, tempVars, orchVars, stampVars, coerceVars>>

NextBool == CallParsersStrtobool \/ CallConvertersStrtobool

SpecBool == InitBool /\ [][NextBool]_vars

---------------------------------------------------------------------------
(* Calendar and number scanning, as the chrono and speedate parsers the    *)
(* code calls compute them.                                                *)

DigitChars == <<"0","1","2","3","4","5","6","7","8","9">>
IsDigit(c) == \E i \in 1..10 : DigitChars[i] = c
DigitVal(c) == (CHOOSE i \in 1..10 : DigitChars[i] = c) - 1

\* The value of a run of digits.
RECURSIVE Number(_)
Number(ds) ==
    IF ds = <<>> THEN 0
    ELSE Number(SubSeq(ds, 1, Len(ds) - 1)) * 10 + DigitVal(ds[Len(ds)])

\* How many of the first `max` characters of s are digits (chrono scan::number
\* takes that many).
RECURSIVE DigitRun(_, _)
DigitRun(s, max) ==
    IF max = 0 \/ s = <<>> \/ ~IsDigit(Head(s)) THEN 0
    ELSE 1 + DigitRun(Tail(s), max - 1)

Drop(s, n) == SubSeq(s, n + 1, Len(s))
StartsWith(s, c) == s # <<>> /\ Head(s) = c

IsLeapYear(y) == (y % 4 = 0 /\ y % 100 # 0) \/ y % 400 = 0
DaysInMonth(y, m) ==
    IF m = 2 THEN (IF IsLeapYear(y) THEN 29 ELSE 28)
    ELSE IF m \in {4, 6, 9, 11} THEN 30 ELSE 31
ValidDate(y, m, d) == m \in 1..12 /\ d \in 1..DaysInMonth(y, m)

\* Days from 1970-01-01 to y-m-d in the proleptic Gregorian calendar.
DaysFromCivil(y, m, d) ==
    LET yy == IF m <= 2 THEN y - 1 ELSE y
        era == yy \div 400
        yoe == yy - era * 400
        mp == (m + 9) % 12
        doy == (153 * mp + 2) \div 5 + d - 1
        doe == yoe * 365 + yoe \div 4 - yoe \div 100 + doy
    IN era * 146097 + doe - 719468

\* Option::None of a Parsed field.
Unset == 0 - 1

\* chrono::format::Parsed: the fields a parse has set.
EmptyParsed ==
    [ok |-> TRUE, year |-> Unset, month |-> Unset, day |-> Unset, hour |-> Unset,
     minute |-> Unset, second |-> Unset, nano |-> Unset, offset |-> Unset]
ParseFail == [EmptyParsed EXCEPT !.ok = FALSE]

\* Scale a fraction of n digits (value v) to nanoseconds.
RECURSIVE Pow10(_)
Pow10(n) == IF n = 0 THEN 1 ELSE 10 * Pow10(n - 1)

---------------------------------------------------------------------------
(* chrono: strftime items and the item-by-item parser.                     *)

\* chrono StrftimeItems: %Y %m %d %H %M %S are numeric items, %.f the
\* optional fraction, whitespace a Space item, anything else a literal.
NumericSpecs == {"Y", "m", "d", "H", "M", "S"}
SpecField(c) ==
    CASE c = "Y" -> "year" [] c = "m" -> "month" [] c = "d" -> "day"
      [] c = "H" -> "hour" [] c = "M" -> "minute" [] c = "S" -> "second"
SpecWidth(c) == IF c = "Y" THEN 4 ELSE 2

Item(k, f, w, c) == [k |-> k, f |-> f, w |-> w, c |-> c]

RECURSIVE StrftimeItems(_)
StrftimeItems(fmt) ==
    IF fmt = <<>> THEN <<>>
    ELSE IF Head(fmt) = "%" THEN
        IF Len(fmt) >= 2 /\ fmt[2] \in NumericSpecs
        THEN <<Item("num", SpecField(fmt[2]), SpecWidth(fmt[2]), fmt[2])>>
                 \o StrftimeItems(Drop(fmt, 2))
        ELSE IF Len(fmt) >= 3 /\ fmt[2] = "." /\ fmt[3] = "f"
        THEN <<Item("frac", "nano", 9, ".")>> \o StrftimeItems(Drop(fmt, 3))
        ELSE <<Item("error", "none", 0, "%")>>
    ELSE IF Head(fmt) \in WhiteSpace
    THEN <<Item("space", "none", 0, Head(fmt))>> \o StrftimeItems(Tail(fmt))
    ELSE <<Item("lit", "none", 0, Head(fmt))>> \o StrftimeItems(Tail(fmt))

\* chrono::format::parse: consume the items in order; whitespace is skipped
\* before a numeric item; the whole input must be consumed.
RECURSIVE ChronoItems(_, _, _)
ChronoItems(s, items, p) ==
    IF items = <<>> THEN (IF s = <<>> THEN p ELSE ParseFail)
    ELSE
      LET it == Head(items) IN
      CASE it.k = "lit" ->
             IF StartsWith(s, it.c) THEN ChronoItems(Tail(s), Tail(items), p)
             ELSE ParseFail
        [] it.k = "space" -> ChronoItems(TrimStart(s), Tail(items), p)
        [] it.k = "num" ->
             LET t == TrimStart(s)
                 n == DigitRun(t, it.w)
             IN IF n = 0 THEN ParseFail
                ELSE ChronoItems(Drop(t, n), Tail(items),
                                 [p EXCEPT ![it.f] = Number(SubSeq(t, 1, n))])
        [] it.k = "frac" ->
             IF StartsWith(s, ".") THEN
                LET n == DigitRun(Tail(s), 9)
                    all == DigitRun(Tail(s), Len(s))
                IN IF n = 0 THEN ParseFail
                   ELSE ChronoItems(Drop(s, 1 + all), Tail(items),
                          [p EXCEPT !.nano =
                              Number(SubSeq(Tail(s), 1, n)) * Pow10(9 - n)])
             ELSE ChronoItems(s, Tail(items), p)
        [] OTHER -> ParseFail

ChronoParse(s, fmt) == ChronoItems(s, StrftimeItems(fmt), EmptyParsed)

\* Parsed::to_naive_date: year, month and day must be set and form a date.
ToNaiveDateOk(p) ==
    /\ p.ok
    /\ p.year # Unset /\ p.month # Unset /\ p.day # Unset
    /\ ValidDate(p.year, p.month, p.day)

\* Parsed::to_naive_time: hour and minute must be set; the second may be
\* omitted, but not when a fraction is given.
ToNaiveTimeOk(p) ==
    /\ p.ok
    /\ p.hour \in 0..23 /\ p.minute \in 0..59
    /\ (p.second = Unset \/ p.second \in 0..60)
    /\ (p.nano # Unset => p.second # Unset)

\* A second of 60 is kept as second 59 with a nanosecond field past 10^9
\* (chrono's leap-second representation).
NaiveTimeOf(p) ==
    LET sec == IF p.second = Unset THEN 0 ELSE p.second
        ns == IF p.nano = Unset THEN 0 ELSE p.nano
    IN [p EXCEPT !.second = IF sec = 60 THEN 59 ELSE sec,
                 !.nano = IF sec = 60 THEN ns + Pow10(9) ELSE ns]

\* NaiveDate::parse_from_str(s, fmt)
NaiveDateParseFromStr(s, fmt) ==
    LET p == ChronoParse(s, fmt) IN
    IF ToNaiveDateOk(p) THEN p ELSE ParseFail

\* NaiveDateTime::parse_from_str(s, fmt)
NaiveDateTimeParseFromStr(s, fmt) ==
    LET p == ChronoParse(s, fmt) IN
    IF ToNaiveDateOk(p) /\ ToNaiveTimeOk(p)
    THEN NaiveTimeOf(p)
    ELSE ParseFail

\* scan::timezone_offset: "Z"/"z", or a sign, two digits of hours, a colon
\* (optional for speedate) and two digits of minutes.
ZoneOffset(z, colonOptional) ==
    IF z \in {<<"Z">>, <<"z">>} THEN [ok |-> TRUE, secs |-> 0]
    ELSE IF /\ Len(z) \in (IF colonOptional THEN {5, 6} ELSE {6})
            /\ z[1] \in {"+", "-"}
            /\ IsDigit(z[2]) /\ IsDigit(z[3])
            /\ IsDigit(z[Len(z) - 1]) /\ IsDigit(z[Len(z)])
            /\ (Len(z) = 6 => z[4] = ":")
    THEN LET hh == Number(SubSeq(z, 2, 3))
             mm == Number(SubSeq(z, Len(z) - 1, Len(z)))
             secs == hh * 3600 + mm * 60
         IN IF hh > 23 \/ mm > 59 THEN [ok |-> FALSE, secs |-> 0]
            ELSE [ok |-> TRUE, secs |-> IF z[1] = "-" THEN 0 - secs ELSE secs]
    ELSE [ok |-> FALSE, secs |-> 0]

\* w digits at the head of s.
HasDigits(s, w) == Len(s) >= w /\ \A i \in 1..w : IsDigit(s[i])

\* The shape YYYY-MM-DD at the head of s, as both strict parsers read it.
IsoDatePart(s) ==
    IF /\ Len(s) >= 10
       /\ HasDigits(s, 4) /\ s[5] = "-"
       /\ IsDigit(s[6]) /\ IsDigit(s[7]) /\ s[8] = "-"
       /\ IsDigit(s[9]) /\ IsDigit(s[10])
    THEN LET y == Number(SubSeq(s, 1, 4))
             m == Number(SubSeq(s, 6, 7))
             d == Number(SubSeq(s, 9, 10))
         IN IF ValidDate(y, m, d)
            THEN [EmptyParsed EXCEPT !.year = y, !.month = m, !.day = d]
            ELSE ParseFail
    ELSE ParseFail

\* chrono DateTime::parse_from_rfc3339: date, "T"/"t"/" ", HH:MM:SS, an
\* optional fraction, and a mandatory offset; nothing may follow.
ParseFromRfc3339(s) ==
    LET p == IsoDatePart(s)
        t == Drop(s, 11)
    IN IF ~( /\ p.ok /\ Len(s) >= 19 /\ s[11] \in {"T", "t", " "}
             /\ HasDigits(t, 2) /\ t[3] = ":" /\ HasDigits(Drop(t, 3), 2)
             /\ t[6] = ":" /\ HasDigits(Drop(t, 6), 2) )
       THEN ParseFail
       ELSE
         LET r == Drop(t, 8)
             n == IF StartsWith(r, ".") THEN DigitRun(Tail(r), 9) ELSE 0
             all == IF StartsWith(r, ".") THEN DigitRun(Tail(r), Len(r)) ELSE 0
             z == IF StartsWith(r, ".") THEN Drop(r, 1 + all) ELSE r
             off == ZoneOffset(z, FALSE)
             q == [p EXCEPT !.hour = Number(SubSeq(t, 1, 2)),
                            !.minute = Number(SubSeq(t, 4, 5)),
                            !.second = Number(SubSeq(t, 7, 8)),
                            !.nano = IF n = 0 THEN 0
                                     ELSE Number(SubSeq(r, 2, 1 + n)) * Pow10(9 - n),
                            !.offset = off.secs]
         IN IF (StartsWith(r, ".") /\ n = 0) \/ ~off.ok \/ ~ToNaiveTimeOk(q)
            THEN ParseFail
            ELSE NaiveTimeOf(q)

---------------------------------------------------------------------------
(* speedate: the strict ISO 8601 / RFC 3339 parsers of the fast path.      *)
(* (A text made of digits only is read by speedate as a unix timestamp;    *)
(* the inputs explored here always hold a separator.)                      *)

\* speedate Date::parse_str
SpeeDateParseStr(s) ==
    IF Len(s) = 10 THEN IsoDatePart(s) ELSE ParseFail

\* speedate's time zone: absent (naive), or an offset.
SpeeZone(z, p) ==
    IF z = <<>> THEN p
    ELSE LET off == ZoneOffset(z, TRUE) IN
         IF off.ok THEN [p EXCEPT !.offset = off.secs] ELSE ParseFail

\* speedate Time: HH:MM, optional :SS, optional fraction of 1..6 digits.
SpeeTime(t, p) ==
    IF ~(HasDigits(t, 2) /\ Len(t) >= 5 /\ t[3] = ":" /\ HasDigits(Drop(t, 3), 2))
    THEN ParseFail
    ELSE
      LET h == Number(SubSeq(t, 1, 2))
          mi == Number(SubSeq(t, 4, 5))
          r1 == Drop(t, 5)
          p1 == [p EXCEPT !.hour = h, !.minute = mi, !.second = 0, !.nano = 0]
      IN IF h > 23 \/ mi > 59 THEN ParseFail
         ELSE IF ~StartsWith(r1, ":") THEN SpeeZone(r1, p1)
         ELSE IF ~HasDigits(Tail(r1), 2) THEN ParseFail
         ELSE
           LET sec == Number(SubSeq(r1, 2, 3))
               r2 == Drop(r1, 3)
               n == IF StartsWith(r2, ".") THEN DigitRun(Tail(r2), Len(r2)) ELSE 0
           IN IF sec > 59 THEN ParseFail
              ELSE IF ~StartsWith(r2, ".") THEN SpeeZone(r2, [p1 EXCEPT !.second = sec])
              ELSE IF n = 0 \/ n > 6 THEN ParseFail
              ELSE SpeeZone(Drop(r2, 1 + n),
                     [p1 EXCEPT !.second = sec,
                                !.nano = Number(SubSeq(r2, 2, 1 + n)) * Pow10(9 - n)])

\* speedate DateTime::parse_str
SpeeDateTimeParseStr(s) ==
    LET p == IsoDatePart(s) IN
    IF p.ok /\ Len(s) >= 11 /\ s[11] \in {"T", "t", " ", "_"}
    THEN SpeeTime(Drop(s, 11), p)
    ELSE ParseFail

---------------------------------------------------------------------------
(* to_date and to_datetime.                                                *)

F_Ymd == <<"%", "Y", "-", "%", "m", "-", "%", "d">>
F_mdY_slash == <<"%", "m", "/", "%", "d", "/", "%", "Y">>
F_mdY_dash == <<"%", "m", "-", "%", "d", "-", "%", "Y">>
F_dmY_dash == <<"%", "d", "-", "%", "m", "-", "%", "Y">>
F_Ymd_slash == <<"%", "Y", "/", "%", "m", "/", "%", "d">>
F_YmdTHMSf == <<"%", "Y", "-", "%", "m", "-", "%", "d", "T", "%", "H", ":", "%", "M", ":", "%", "S", "%", ".", "f">>
F_Ymd_HMS == <<"%", "Y", "-", "%", "m", "-", "%", "d", " ", "%", "H", ":", "%", "M", ":", "%", "S">>
F_dmY_slash == <<"%", "d", "/", "%", "m", "/", "%", "Y">>
F_dmY_dot == <<"%", "d", ".", "%", "m", ".", "%", "Y">>
F_YmdTHMS == <<"%", "Y", "-", "%", "m", "-", "%", "d", "T", "%", "H", ":", "%", "M", ":", "%", "S">>

\* A slip the claims must detect: day-month-year listed ahead of
\* month-day-year.
BuiltinFormatsSwapped ==
    << F_Ymd, F_mdY_slash, F_dmY_dash, F_mdY_dash, F_Ymd_slash,
       F_YmdTHMSf, F_Ymd_HMS, F_dmY_slash, F_dmY_dot >>

\* The `formats` vector literal of to_date and to_datetime.
BuiltinFormats ==
    << F_Ymd, F_mdY_slash, F_mdY_dash, F_dmY_dash, F_Ymd_slash,
       F_YmdTHMSf, F_Ymd_HMS, F_dmY_slash, F_dmY_dot >>

\* Option<&str>
NoFormat == [some |-> FALSE, fmt |-> <<>>]
SomeFormat(f) == [some |-> TRUE, fmt |-> f]

MsgInputEmpty ==
    <<"I", "n", "p", "u", "t", " ", "s", "t", "r", "i", "n", "g", " ", "i",
    "s", " ", "e", "m", "p", "t", "y">>
MsgUnableDate ==
    <<"U", "n", "a", "b", "l", "e", " ", "t", "o", " ", "p", "a", "r", "s",
    "e", " ", "i", "n", "p", "u", "t", " ", "'">>
MsgIntoDateFormats ==
    <<"'", " ", "i", "n", "t", "o", " ", "a", " ", "d", "a", "t", "e", ".",
    " ", "A", "c", "c", "e", "p", "t", "e", "d", " ", "f", "o", "r", "m",
    "a", "t", "s", ":", " ">>
MsgIntoDateTypes ==
    <<"'", " ", "i", "n", "t", "o", " ", "a", " ", "d", "a", "t", "e", ".",
    " ", "A", "c", "c", "e", "p", "t", "e", "d", " ", "t", "y", "p", "e",
    "s", " ", "a", "r", "e", " ", "s", "t", "r", "i", "n", "g", "s", " ",
    "(", "I", "S", "O", " ", "8", "6", "0", "1", " ", "o", "r", " ", "c",
    "u", "s", "t", "o", "m", " ", "f", "o", "r", "m", "a", "t", "s", ")">>
MsgUnableDatetime ==
    <<"U", "n", "a", "b", "l", "e", " ", "t", "o", " ", "p", "a", "r", "s",
    "e", " ", "d", "a", "t", "e", "t", "i", "m", "e", " ", "f", "r", "o",
    "m", " ", "'">>
MsgTriedFormats ==
    <<"'", ".", " ", "T", "r", "i", "e", "d", " ", "f", "o", "r", "m", "a",
    "t", "s", ":", " ">>
MsgYearOutOfRange ==
    <<"y", "e", "a", "r", " ", "i", "s", " ", "o", "u", "t", " ", "o", "f",
    " ", "r", "a", "n", "g", "e">>

\* Rust's {:?} of a Vec<&str>.
DebugStr(f) == <<"\"">> \o f \o <<"\"">>
RECURSIVE DebugJoin(_)
DebugJoin(fs) ==
    IF fs = <<>> THEN <<>>
    ELSE IF Len(fs) = 1 THEN DebugStr(fs[1])
    ELSE DebugStr(Head(fs)) \o <<",", " ">> \o DebugJoin(Tail(fs))
DebugVec(fs) == <<"[">> \o DebugJoin(fs) \o <<"]">>

\* The Python object a call returns.  A PyDate has no time fields; a
\* datetime built by PyDateTime::from_timestamp is known by the timestamp
\* handed to Python (which renders it in the process's local zone).
NoValue ==
    [kind |-> "none", year |-> Unset, month |-> Unset, day |-> Unset, hour |-> Unset,
     minute |-> Unset, second |-> Unset, microsecond |-> Unset, ts |-> Unset]
PyDateValue(p) ==
    [NoValue EXCEPT !.kind = "date", !.year = p.year, !.month = p.month, !.day = p.day]
PyDateTimeValue(p, micro) ==
    [NoValue EXCEPT !.kind = "datetime", !.year = p.year, !.month = p.month,
                    !.day = p.day, !.hour = p.hour, !.minute = p.minute,
                    !.second = p.second, !.microsecond = micro]
FromTimestampValue(t) == [NoValue EXCEPT !.kind = "fromtimestamp", !.ts = t]

\* One parser invocation made by a call, in the order made.
Attempt(parser, fmt) == [parser |-> parser, fmt |-> fmt]

\* PyResult of to_date / to_datetime, with the parser invocations it made.
TOk(fn, v, att) == [st |-> "ok", fn |-> fn, value |-> v, msg |-> <<>>, attempts |-> att]
TErr(fn, m, att) == [st |-> "err", fn |-> fn, value |-> NoValue, msg |-> m, attempts |-> att]
TNone == [st |-> "none", fn |-> "none", value |-> NoValue, msg |-> <<>>, attempts |-> <<>>]

\* PyDate::new / PyDateTime::new raise ValueError outside years 1..9999.
PyDateNew(fn, p, att) ==
    IF p.year \in 1..9999 THEN TOk(fn, PyDateValue(p), att)
    ELSE TErr(fn, MsgYearOutOfRange, att)
PyDateTimeNew(fn, p, micro, att) ==
    IF p.year \in 1..9999 THEN TOk(fn, PyDateTimeValue(p, micro), att)
    ELSE TErr(fn, MsgYearOutOfRange, att)

\* DateTime::timestamp of an RFC 3339 parse, in UTC seconds.
UtcTimestamp(p) ==
    DaysFromCivil(p.year, p.month, p.day) * 86400
        + p.hour * 3600 + p.minute * 60 + p.second - p.offset

\* `datetime.and_utc().timestamp_micros() as u32 % 1_000_000`: the 64-bit
\* count of microseconds since 1970 is cut to its low 32 bits and then
\* reduced modulo 10^6.  Computed without leaving 31 bits:
\*   micros = secs * 15625 * 64 + sub, so micros mod 2^32 is
\*   64 * ((secs * 15625) mod 2^26) + sub, wrapped once more.
SubsecMicrosU32(p) ==
    LET days == DaysFromCivil(p.year, p.month, p.day)
        sod == p.hour * 3600 + p.minute * 60 + p.second
        sub == p.nano \div 1000
        secs26 == ((((days * 675) % 524288) * 128) + sod) % 67108864
        h == secs26 \div 8192
        l == secs26 % 8192
        a == ((((h * 15625) % 8192) * 8192) + l * 15625) % 67108864
        q == (a + sub \div 64) % 67108864
    IN 64 * (q % 15625) + (sub % 64)

\* A slip the claims must detect: the emptiness test without the trim.
IsEmptyInputNoTrim(inp) == inp = <<>>

\* `input.trim().is_empty()`
IsEmptyInput(inp) == Trim(inp) = <<>>

\* rs_parsers: `if let Some(fmt) = custom_format { formats.push(fmt) }`
parsers_formats(custom) ==
    IF custom.some THEN Append(BuiltinFormats, custom.fmt) ELSE BuiltinFormats

\* rst_converters: the vector literal ends with custom_format.unwrap_or_default()
converters_formats(custom) ==
    Append(BuiltinFormats, IF custom.some THEN custom.fmt ELSE <<>>)

ParseWith(kind, inp, fmt) ==
    IF kind = "date" THEN NaiveDateParseFromStr(inp, fmt)
    ELSE NaiveDateTimeParseFromStr(inp, fmt)

\* `for &fmt in &formats { if let Ok(..) = parse_from_str(input, fmt) { return .. } }`
\* the index of the format the loop returns at, 0 when it runs to its end.
RECURSIVE FormatLoop(_, _, _, _)
FormatLoop(kind, inp, formats, i) ==
    IF i > Len(formats) THEN 0
    ELSE IF ParseWith(kind, inp, formats[i]).ok THEN i
    ELSE FormatLoop(kind, inp, formats, i + 1)

FormatAttempts(parser, formats, k) == [i \in 1..k |-> Attempt(parser, formats[i])]

\* rs_parsers::to_date
parsers_to_date(inp, custom) ==
    LET fn == "rs_parsers.to_date"
        a1 == <<Attempt("SpeeDate::parse_str", <<>>)>>
        sd == SpeeDateParseStr(inp)
        formats == parsers_formats(custom)
        k == FormatLoop("date", inp, formats, 1)
    IN IF IsEmptyInput(inp) THEN TErr(fn, MsgInputEmpty, <<>>)
       ELSE IF sd.ok THEN PyDateNew(fn, sd, a1)
       ELSE IF k > 0
       THEN PyDateNew(fn, NaiveDateParseFromStr(inp, formats[k]),
                      a1 \o FormatAttempts("NaiveDate::parse_from_str", formats, k))
       ELSE TErr(fn, MsgUnableDate \o inp \o MsgIntoDateFormats \o DebugVec(formats),
                 a1 \o FormatAttempts("NaiveDate::parse_from_str", formats, Len(formats)))

\* rst_converters::to_date
converters_to_date(inp, custom) ==
    LET fn == "rst_converters.to_date"
        a1 == <<Attempt("SpeeDate::parse_str", <<>>)>>
        sd == SpeeDateParseStr(inp)
        formats == converters_formats(custom)
        k == FormatLoop("date", inp, formats, 1)
    IN IF IsEmptyInput(inp) THEN TErr(fn, MsgInputEmpty, <<>>)
       ELSE IF sd.ok THEN PyDateNew(fn, sd, a1)
       ELSE IF k > 0
       THEN PyDateNew(fn, NaiveDateParseFromStr(inp, formats[k]),
                      a1 \o FormatAttempts("NaiveDate::parse_from_str", formats, k))
       ELSE TErr(fn, MsgUnableDate \o inp \o MsgIntoDateTypes,
                 a1 \o FormatAttempts("NaiveDate::parse_from_str", formats, Len(formats)))

\* rs_parsers::to_datetime
parsers_to_datetime(inp, custom) ==
    LET fn == "rs_parsers.to_datetime"
        a1 == <<Attempt("SpeeDateTime::parse_str", <<>>)>>
        a2 == Append(a1, Attempt("DateTime::parse_from_rfc3339", <<>>))
        sd == SpeeDateTimeParseStr(inp)
        rf == ParseFromRfc3339(inp)
        formats == parsers_formats(custom)
        k == FormatLoop("datetime", inp, formats, 1)
        dt == NaiveDateTimeParseFromStr(inp, formats[k])
    IN IF IsEmptyInput(inp) THEN TErr(fn, MsgInputEmpty, <<>>)
       ELSE IF sd.ok THEN PyDateTimeNew(fn, sd, sd.nano \div 1000, a1)
       ELSE IF rf.ok THEN TOk(fn, FromTimestampValue(UtcTimestamp(rf)), a2)
       ELSE IF k > 0
       THEN PyDateTimeNew(fn, dt, SubsecMicrosU32(dt),
                a2 \o FormatAttempts("NaiveDateTime::parse_from_str", formats, k))
       ELSE TErr(fn, MsgUnableDatetime \o inp \o MsgTriedFormats \o DebugVec(formats),
                a2 \o FormatAttempts("NaiveDateTime::parse_from_str", formats, Len(formats)))

\* rst_converters::to_datetime
converters_to_datetime(inp, custom) ==
    LET fn == "rst_converters.to_datetime"
        a1 == <<Attempt("SpeeDateTime::parse_str", <<>>)>>
        a2 == Append(a1, Attempt("DateTime::parse_from_rfc3339", <<>>))
        a3 == Append(a2, Attempt("NaiveDateTime::parse_from_str", F_YmdTHMS))
        a4 == Append(a3, Attempt("NaiveDateTime::parse_from_str", F_YmdTHMSf))
        sd == SpeeDateTimeParseStr(inp)
        rf == ParseFromRfc3339(inp)
        t1 == NaiveDateTimeParseFromStr(inp, F_YmdTHMS)
        t2 == NaiveDateTimeParseFromStr(inp, F_YmdTHMSf)
        formats == converters_formats(custom)
        k == FormatLoop("datetime", inp, formats, 1)
        dt == NaiveDateTimeParseFromStr(inp, formats[k])
    IN IF IsEmptyInput(inp) THEN TErr(fn, MsgInputEmpty, <<>>)
       ELSE IF sd.ok THEN PyDateTimeNew(fn, sd, sd.nano \div 1000, a1)
       ELSE IF rf.ok THEN TOk(fn, FromTimestampValue(UtcTimestamp(rf)), a2)
       ELSE IF t1.ok THEN PyDateTimeNew(fn, t1, 0, a3)
       ELSE IF t2.ok THEN PyDateTimeNew(fn, t2, SubsecMicrosU32(t2), a4)
       ELSE IF k > 0
       THEN PyDateTimeNew(fn, dt, SubsecMicrosU32(dt),
                a4 \o FormatAttempts("NaiveDateTime::parse_from_str", formats, k))
       ELSE TErr(fn, MsgUnableDatetime \o inp \o MsgTriedFormats \o DebugVec(formats),
                a4 \o FormatAttempts("NaiveDateTime::parse_from_str", formats, Len(formats)))

(* Inputs of to_date / to_datetime: blank texts of at most MaxBlank         *)
(* characters; three numeric fields joined by one separator, alone or      *)
(* followed by a time; and a few texts outside that shape.                 *)
MaxBlank == 2

BlankInputs == UNION { [1..n -> {" ", "\t"}] : n \in 0..MaxBlank }

DateFields == { <<"2", "0", "2", "4">>, <<"0", "1">>, <<"0", "2">>, <<"1", "3">>, <<"3">> }
DateSeps == { "-", "/", "." }
DateTexts ==
    { a \o <<s>> \o b \o <<s>> \o c : a \in DateFields, b \in DateFields,
                                      c \in DateFields, s \in DateSeps }
TimeSuffixes ==
    { <<>>, <<"T", "1", "0", ":", "2", "0", ":", "3", "0">>, <<" ", "1", "0", ":", "2", "0", ":", "3", "0">>, <<"T", "1", "0", ":", "2", "0", ":", "3", "0", ".", "5">>, <<"T", "1", ":", "2", ":", "3">>,
      <<"T", "1", "0", ":", "2", "0", ":", "3", "0", "Z">>, <<"T", "2", "3", ":", "5", "9", ":", "6", "0", "Z">> }
OtherTexts ==
    { <<"g", "a", "r", "b", "a", "g", "e">>, <<" ", "2", "0", "2", "4", "-", "0", "1", "-", "0", "2">>, <<"2", "0", "2", "4", "-", "0", "1", "-", "0", "2", " ">>,
      <<"2", "0", "2", "4", "-", "0", "1", "-", "0", "2", "T", "1", "0", ":", "2", "0", ":", "3", "0", ".", "2", "5", "+", "0", "2", ":", "0", "0">>, <<"1", "3", "/", "0", "1", "/", "2", "0", "2", "4", " ", "1", "0", ":", "2", "0", ":", "3", "0">>,
      <<"2", "0", "2", "4", "-", "0", "1", "-", "0", "2", "T", "2", "3", ":", "5", "9", ":", "6", "0", ".", "5", "Z">> }

TemporalInputs ==
    BlankInputs \cup OtherTexts \cup { d \o t : d \in DateTexts, t \in TimeSuffixes }

Customs ==
    { NoFormat, SomeFormat(<<" ">>), SomeFormat(F_dmY_dash),
      SomeFormat(<<"%", "Y", ".", "%", "m", ".", "%", "d">>), SomeFormat(<<"%", "d", "/", "%", "m", "/", "%", "Y", " ", "%", "H", ":", "%", "M", ":", "%", "S">>) }

InitTemporal ==
    /\ input \in TemporalInputs
    /\ custom_format \in Customs
    /\ tres = TNone
    /\ val = <<>> /\ bres = <<>>
    /\ record = <<>> /\ pc = "idle" /\ vresult = "idle" /\ presult = "idle"
    /\ field_infos = <<>> /\ slots = <<>> /\ claimed = <<>> /\ completed = <<>>
    /\ IdleStamp /\ IdleCoerce

CallParsersToDate ==
    /\ tres = TNone
    /\ tres' = parsers_to_date(input, custom_format)
    /\ UNCHANGED <<input, custom_format, boolVars, orchVars, stampVars, coerceVars>>

CallParsersToDatetime ==
    /\ tres = TNone
    /\ tres' = parsers_to_datetime(input, custom_format)
    /\ UNCHANGED <<input, custom_format, boolVars, orchVars, stampVars, coerceVars>>

CallConvertersToDate ==
    /\ tres = TNone
    /\ tres' = converters_to_date(input, custom_format)
    /\ UNCHANGED <<input, custom_format, boolVars, orchVars, stampVars, coerceVars>>

CallConvertersToDatetime ==
    /\ tres = TNone
    /\ tres' = converters_to_datetime(input, custom_format)
    /\ UNCHANGED <<input, custom_format, boolVars, orchVars, stampVars, coerceVars>>

NextTemporal ==
    \/ CallParsersToDate
    \/ CallParsersToDatetime
    \/ CallConvertersToDate
    \/ CallConvertersToDatetime

SpecTemporal == InitTemporal /\ [][NextTemporal]_vars

---------------------------------------------------------------------------
(* validate_datamodel and parse_datamodel.  rs_core and rst_converters     *)
(* carry the same text; line references are to rst_converters.             *)

\* A Python value: its runtime type and its text.
PyValue(tag, text) == [tag |-> tag, text |-> text]

\* FromPyObject for the Rust types the orchestrators extract.
ExtractStr(v) == v.tag = "str"
ExtractI64(v) == v.tag \in {"int", "bool"}
ExtractF64(v) == v.tag \in {"float", "int", "bool"}
ExtractBool(v) == v.tag = "bool"
ExtractPyDateTime(v) == v.tag = "datetime"
ExtractPyDate(v) == v.tag \in {"date", "datetime"}

\* An annotation that is not a class (a typing generic) fails
\* extract::<&PyType>.
NotAType == "List[int]"
IsPyType(t) == t # NotAType

VOk(b) == [ok |-> TRUE, value |-> b]
VErr == [ok |-> FALSE, value |-> FALSE]

validate_field(field_type, value) ==
    IF ~IsPyType(field_type) THEN VErr
    ELSE CASE field_type = "str" -> VOk(ExtractStr(value))
           [] field_type = "int" -> VOk(ExtractI64(value))
           [] field_type = "float" -> VOk(ExtractF64(value))
           [] field_type = "bool" -> VOk(ExtractBool(value))
           [] field_type = "datetime" -> VOk(ExtractPyDateTime(value))
           [] field_type = "date" -> VOk(ExtractPyDate(value))
           [] OTHER -> VErr

\* One element of the Vec<(String, bool)> both orchestrators return.
Entry(name, valid) == [name |-> name, valid |-> valid]

ROk(list) == [st |-> "ok", list |-> list]
RErr == [st |-> "err", list |-> <<>>]
RNone == [st |-> "none", list |-> <<>>]

validate_datamodel(rec) ==
    ROk([i \in 1..Len(rec) |->
            LET r == validate_field(rec[i].type, rec[i].value)
            IN Entry(rec[i].name, IF r.ok THEN r.value ELSE FALSE)])

\* FieldType::from_str; "None" stands for Option::None.
FieldTypeFromStr(type_name) ==
    CASE type_name = "str" -> "Str"
      [] type_name = "int" -> "Int"
      [] type_name = "float" -> "Float"
      [] type_name = "bool" -> "Bool"
      [] type_name = "datetime.datetime" -> "DateTime"
      [] type_name = "datetime.date" -> "Date"
      [] type_name = "datetime.time" -> "Time"
      [] OTHER -> "None"

FieldValue(kind, text) == [kind |-> kind, text |-> text]

F_HMS == <<"%", "H", ":", "%", "M", ":", "%", "S">>

\* NaiveTime::parse_from_str(s, fmt)
NaiveTimeParseFromStr(s, fmt) ==
    LET p == ChronoParse(s, fmt) IN
    IF ToNaiveTimeOk(p) THEN NaiveTimeOf(p) ELSE ParseFail

\* FieldType::parse
FieldTypeParse(field_type, value) ==
    CASE field_type \in {"Str", "Int", "Float", "Bool"} -> TRUE
      [] field_type = "DateTime" ->
            IF value.kind = "Str" THEN ParseFromRfc3339(value.text).ok ELSE FALSE
      [] field_type = "Date" ->
            IF value.kind = "Str" THEN NaiveDateParseFromStr(value.text, F_Ymd).ok ELSE FALSE
      [] field_type = "Time" ->
            IF value.kind = "Str" THEN NaiveTimeParseFromStr(value.text, F_HMS).ok ELSE FALSE

\* FieldType::validate
FieldTypeValidate(field_type, value) == value.kind = field_type

RustFieldInfo(field_name, field_type, type_name, value) ==
    [field_name |-> field_name, field_type |-> field_type,
     type_name |-> type_name, value |-> value]

\* The extraction get_field_info makes for each FieldType.
ExtractFor(field_type, v) ==
    CASE field_type = "Int" -> ExtractI64(v)
      [] field_type = "Float" -> ExtractF64(v)
      [] field_type = "Bool" -> ExtractBool(v)
      [] OTHER -> ExtractStr(v)

\* The loop of get_field_info from field i on: a field of an unsupported
\* type is skipped, a failed extraction returns the error.
RECURSIVE GetFieldInfoFrom(_, _, _)
GetFieldInfoFrom(rec, i, result) ==
    IF i > Len(rec) THEN [ok |-> TRUE, infos |-> result]
    ELSE LET f == rec[i]
             field_type == FieldTypeFromStr(f.type)
         IN IF ~IsPyType(f.type) THEN [ok |-> FALSE, infos |-> <<>>]
            ELSE IF field_type = "None" THEN GetFieldInfoFrom(rec, i + 1, result)
            ELSE IF ~ExtractFor(field_type, f.value) THEN [ok |-> FALSE, infos |-> <<>>]
            ELSE GetFieldInfoFrom(rec, i + 1,
                    Append(result, RustFieldInfo(f.name, field_type, f.type,
                                                 FieldValue(field_type, f.value.text))))

get_field_info(rec) == GetFieldInfoFrom(rec, 1, <<>>)

\* The closure parse_datamodel maps over field_infos.
MapField(field_info) ==
    LET is_parsed == FieldTypeParse(field_info.field_type, field_info.value)
    IN IF ~is_parsed THEN Entry(field_info.field_name, FALSE)
       ELSE Entry(field_info.field_name,
                  FieldTypeValidate(field_info.field_type, field_info.value))

EmptySlot == [filled |-> FALSE, name |-> "", valid |-> FALSE]
FilledSlot(e) == [filled |-> TRUE, name |-> e.name, valid |-> e.valid]

\* A slip the claims must detect: results stored in the order the workers
\* finish.
StoreFirstFree(sl, i) ==
    CHOOSE k \in 1..Len(sl) :
        /\ ~sl[k].filled
        /\ \A j \in 1..Len(sl) : ~sl[j].filled => k <= j

\* The indexed collect: the result of item i is written to position i.
StoreAt(sl, i) == i

MaxFields == 2
MaxPoolFields == 3
NumWorkers == 2

Workers == 1..NumWorkers

\* The keys of __dataclass_fields__, in declaration order.
FieldNames == <<"name", "age", "joined", "active", "score">>

\* What PyType::name() yields for the annotation: the bare class name, the
\* dotted name older bindings report, a class outside the table, or an
\* annotation that is not a class.
TypeNames ==
    { "str", "int", "float", "bool", "datetime", "date", "time",
      "datetime.datetime", "datetime.date", "datetime.time", "complex",
      NotAType }

PyValues ==
    { PyValue("str", <<"A", "l", "i", "c", "e">>), PyValue("str", <<"4", "2">>),
      PyValue("str", <<"f", "o", "r", "t", "y", "-", "t", "w", "o">>), PyValue("str", <<"2", "0", "2", "4", "-", "0", "3", "-", "0", "1">>),
      PyValue("int", <<"4", "2">>), PyValue("float", <<"1", ".", "5">>),
      PyValue("bool", <<"T", "r", "u", "e">>), PyValue("datetime", <<"2", "0", "2", "4", "-", "0", "3", "-", "0", "1", "T", "1", "0", ":", "2", "0", ":", "3", "0">>),
      PyValue("date", <<"2", "0", "2", "4", "-", "0", "3", "-", "0", "1">>), PyValue("time", <<"1", "0", ":", "2", "0", ":", "3", "0">>) }

Descriptors == { [type |-> t, value |-> v] : t \in TypeNames, v \in PyValues }

\* Descriptors whose extraction succeeds or whose type is skipped.
PoolDescriptors ==
    { [type |-> "str", value |-> PyValue("str", <<"A", "l", "i", "c", "e">>)],
      [type |-> "int", value |-> PyValue("int", <<"4", "2">>)],
      [type |-> "datetime.date", value |-> PyValue("str", <<"2", "0", "2", "4", "-", "0", "3", "-", "0", "1">>)],
      [type |-> "complex", value |-> PyValue("str", <<"A", "l", "i", "c", "e">>)] }

\* The dataclass instances of up to n fields over descriptors ds.
Records(ds, n) ==
    UNION { { [i \in 1..k |-> [name |-> FieldNames[i], type |-> c[i].type,
                               value |-> c[i].value]] : c \in [1..k -> ds] }
            : k \in 0..n }

InitOrch(records) ==
    /\ val = <<>> /\ bres = <<>>
    /\ input = <<>> /\ custom_format = NoFormat /\ tres = TNone
    /\ record \in records
    /\ pc = "idle"
    /\ vresult = RNone /\ presult = RNone
    /\ field_infos = <<>> /\ slots = <<>>
    /\ claimed = [w \in Workers |-> 0]
    /\ completed = <<>>
    /\ IdleStamp /\ IdleCoerce

Init == InitOrch(Records(Descriptors, MaxFields))

InitPool == InitOrch(Records(PoolDescriptors, MaxPoolFields))

\* validate_datamodel(dataclass_instance)
ValidateDatamodel ==
    /\ vresult = RNone
    /\ vresult' = validate_datamodel(record)
    /\ UNCHANGED <<record, pc, presult, field_infos, slots, claimed, completed>>
    /\ UNCHANGED <<boolVars, tempVars, stampVars, coerceVars>>

\* parse_datamodel up to the parallel map: get_field_info fills field_infos,
\* or its error is returned.
ParseDatamodel ==
    /\ pc = "idle"
    /\ LET r == get_field_info(record) IN
       IF r.ok
       THEN /\ field_infos' = r.infos
            /\ slots' = [i \in 1..Len(r.infos) |-> EmptySlot]
            /\ pc' = "parallel"
            /\ UNCHANGED presult
       ELSE /\ presult' = RErr
            /\ pc' = "done"
            /\ UNCHANGED <<field_infos, slots>>
    /\ UNCHANGED <<record, vresult, claimed, completed>>
    /\ UNCHANGED <<boolVars, tempVars, stampVars, coerceVars>>

\* Item i is being processed or has been processed.
Taken(i) ==
    \/ \E w \in Workers : claimed[w] = i
    \/ \E k \in 1..Len(completed) : completed[k] = i

\* A pool worker picks up one item of the parallel iterator.
TakeJob(w) ==
    /\ pc = "parallel"
    /\ claimed[w] = 0
    /\ \E i \in 1..Len(field_infos) :
          /\ ~Taken(i)
          /\ claimed' = [claimed EXCEPT ![w] = i]
    /\ UNCHANGED <<record, pc, vresult, presult, field_infos, slots, completed>>
    /\ UNCHANGED <<boolVars, tempVars, stampVars, coerceVars>>

\* The worker runs the closure on its item and stores the result.
FinishJob(w) ==
    /\ pc = "parallel"
    /\ claimed[w] # 0
    /\ slots' = [slots EXCEPT ![StoreAt(slots, claimed[w])] =
                     FilledSlot(MapField(field_infos[claimed[w]]))]
    /\ completed' = Append(completed, claimed[w])
    /\ claimed' = [claimed EXCEPT ![w] = 0]
    /\ UNCHANGED <<record, pc, vresult, presult, field_infos>>
    /\ UNCHANGED <<boolVars, tempVars, stampVars, coerceVars>>

\* collect() returns once every item is done.
Collect ==
    /\ pc = "parallel"
    /\ \A i \in 1..Len(slots) : slots[i].filled
    /\ presult' = ROk([i \in 1..Len(slots) |-> Entry(slots[i].name, slots[i].valid)])
    /\ pc' = "done"
    /\ UNCHANGED <<record, vresult, field_infos, slots, claimed, completed>>
    /\ UNCHANGED <<boolVars, tempVars, stampVars, coerceVars>>

NextPool ==
    \/ ParseDatamodel
    \/ \E w \in Workers : TakeJob(w)
    \/ \E w \in Workers : FinishJob(w)
    \/ Collect

Next ==
    \/ ValidateDatamodel
    \/ NextPool

Spec == Init /\ [][Next]_vars

SpecPool == InitPool /\ [][NextPool]_vars

---------------------------------------------------------------------------
(* to_timestamp (rs_parsers and rst_converters).                           *)

\* An f64 argument.  A finite one is day * 86400 + sod + num / 2^bits with
\* 0 <= sod < 86400 and 0 <= num < 2^bits, so that floor() is (day, sod) and
\* the binary fraction is exact.
Finite(day, sod, num, bits) ==
    [kind |-> "finite", day |-> day, sod |-> sod, num |-> num, bits |-> bits]
NaN == [kind |-> "nan", day |-> 0, sod |-> 0, num |-> 0, bits |-> 0]
PosInf == [kind |-> "inf", day |-> 0, sod |-> 0, num |-> 0, bits |-> 0]
NegInf == [kind |-> "neginf", day |-> 0, sod |-> 0, num |-> 0, bits |-> 0]

\* `timestamp.floor() as i64`: the cast saturates and sends NaN to 0.
FloorAsI64(t) ==
    CASE t.kind = "finite" -> [sat |-> "no", day |-> t.day, sod |-> t.sod]
      [] t.kind = "nan" -> [sat |-> "no", day |-> 0, sod |-> 0]
      [] t.kind = "inf" -> [sat |-> "max", day |-> 0, sod |-> 0]
      [] t.kind = "neginf" -> [sat |-> "min", day |-> 0, sod |-> 0]

\* (num / 2^bits * 1_000_000.0).round(): halves round away from zero.
RoundMicros(num, bits) ==
    IF bits <= 6 THEN num * (1000000 \div 2^bits)
    ELSE LET d == 2^(bits - 6)
             hi == num \div d
             lo == num % d
         IN hi * 15625 + (2 * lo * 15625 + d) \div (2 * d)

\* rs_parsers: ((timestamp - seconds as f64) * 1_000_000.0).round() as u32,
\* for a timestamp that passed the range test (NaN as u32 is 0).
parsers_microseconds(t) ==
    IF t.kind = "finite" THEN RoundMicros(t.num, t.bits) ELSE 0

\* rst_converters: (timestamp.fract() * 1_000_000.0).round() as u32.  The
\* fraction of a negative timestamp is negative (or -0.0) and the cast
\* saturates it to 0; the fraction of an infinity is NaN.
converters_microseconds(t) ==
    IF t.kind = "finite" /\ t.day >= 0 THEN RoundMicros(t.num, t.bits) ELSE 0

\* The civil date of a day number counted from 1970-01-01.
CivilFromDays(days) ==
    LET z == days + 719468
        era == z \div 146097
        doe == z - era * 146097
        yoe == (doe - doe \div 1460 + doe \div 36524 - doe \div 146096) \div 365
        doy == doe - (365 * yoe + yoe \div 4 - yoe \div 100)
        mp == (5 * doy + 2) \div 153
        d == doy - (153 * mp + 2) \div 5 + 1
        m == IF mp < 10 THEN mp + 3 ELSE mp - 9
        y == yoe + era * 400
    IN [year |-> IF m <= 2 THEN y + 1 ELSE y, month |-> m, day |-> d]

\* The years of NaiveDate::MIN and NaiveDate::MAX.
ChronoMinYear == 0 - 262143
ChronoMaxYear == 262142

\* NaiveDateTime::MIN.and_utc().timestamp() <= seconds <=
\* NaiveDateTime::MAX.and_utc().timestamp()
InChronoRange(seconds) ==
    /\ seconds.sat = "no"
    /\ CivilFromDays(seconds.day).year \in ChronoMinYear..ChronoMaxYear

\* DateTime::from_timestamp(secs, nsecs): None outside the range of
\* NaiveDateTime or for nsecs >= 2_000_000_000.
FromTimestamp(seconds, nsecs) ==
    IF ~InChronoRange(seconds) \/ nsecs >= 2000000000
       \/ (nsecs >= 1000000000 /\ seconds.sod % 60 # 59)
    THEN ParseFail
    ELSE LET c == CivilFromDays(seconds.day) IN
         [EmptyParsed EXCEPT !.year = c.year, !.month = c.month, !.day = c.day,
                             !.hour = seconds.sod \div 3600,
                             !.minute = (seconds.sod % 3600) \div 60,
                             !.second = seconds.sod % 60,
                             !.nano = nsecs]

MsgInvalidTimestamp == <<"I", "n", "v", "a", "l", "i", "d", " ", "t", "i", "m", "e", "s", "t", "a", "m", "p">>

parsers_to_timestamp(t) ==
    LET fn == "rs_parsers.to_timestamp"
        seconds == FloorAsI64(t)
    IN IF ~InChronoRange(seconds) THEN TErr(fn, MsgInvalidTimestamp, <<>>)
       ELSE LET datetime == FromTimestamp(seconds, parsers_microseconds(t)) IN
            IF datetime.ok
            THEN PyDateTimeNew(fn, datetime, datetime.nano \div 1000, <<>>)
            ELSE TErr(fn, MsgInvalidTimestamp, <<>>)

converters_to_timestamp(t) ==
    LET fn == "rst_converters.to_timestamp"
        seconds == FloorAsI64(t)
        datetime == FromTimestamp(seconds, converters_microseconds(t))
    IN IF datetime.ok
       THEN PyDateTimeNew(fn, datetime, datetime.nano \div 1000, <<>>)
       ELSE TErr(fn, MsgInvalidTimestamp, <<>>)

\* Whole seconds, as (day, second of day): around the epoch, a recent
\* instant, and both sides of year 1, of year 9999 and of chrono's range.
WholeSeconds ==
    { <<0, 0>>, <<0, 1>>, <<0 - 1, 86399>>, <<19783, 37230>>,
      <<0 - 719162, 0>>, <<0 - 719163, 86399>>,
      <<2932896, 86399>>, <<2932897, 0>>,
      <<100000000, 0>>, <<0 - 100000000, 0>> }

\* Binary fractions (num, bits): 0, 1/2, 1/4, 3/4, and 1/1024, 8/1024,
\* 1023/1024, whose microseconds need rounding, and 1 - 2^-21, which rounds
\* to a full second.
Fractions ==
    { <<0, 0>>, <<1, 1>>, <<1, 2>>, <<3, 2>>, <<1, 10>>, <<8, 10>>, <<1023, 10>>,
      <<2097151, 21>> }

Timestamps ==
    { Finite(w[1], w[2], f[1], f[2]) : w \in WholeSeconds, f \in Fractions }
        \cup { NaN, PosInf, NegInf }

StampImpls == {"rs_parsers", "rst_converters"}

InitStamp ==
    /\ timestamp \in Timestamps
    /\ sres = [i \in StampImpls |-> TNone]
    /\ val = <<>> /\ bres = <<>>
    /\ input = <<>> /\ custom_format = NoFormat /\ tres = TNone
    /\ record = <<>> /\ pc = "idle" /\ vresult = RNone /\ presult = RNone
    /\ field_infos = <<>> /\ slots = <<>> /\ claimed = <<>> /\ completed = <<>>
    /\ IdleCoerce

CallParsersToTimestamp ==
    /\ sres["rs_parsers"] = TNone
    /\ sres' = [sres EXCEPT !["rs_parsers"] = parsers_to_timestamp(timestamp)]
    /\ UNCHANGED <<timestamp, boolVars, tempVars, orchVars, coerceVars>>

CallConvertersToTimestamp ==
    /\ sres["rst_converters"] = TNone
    /\ sres' = [sres EXCEPT !["rst_converters"] = converters_to_timestamp(timestamp)]
    /\ UNCHANGED <<timestamp, boolVars, tempVars, orchVars, coerceVars>>

NextStamp == CallParsersToTimestamp \/ CallConvertersToTimestamp

SpecStamp == InitStamp /\ [][NextStamp]_vars

---------------------------------------------------------------------------
(* Python objects handed to the scalar coercers.  tag is the name of the   *)
(* object's type, text what str() returns for it, and ret, for a function, *)
(* names what calling it without arguments does.                           *)

Obj(tag, text, ret) == [tag |-> tag, text |-> text, ret |-> ret]
PyNone == Obj("NoneType", <<"N", "o", "n", "e">>, "")
PyStr(s) == Obj("str", s, "")
PyBytes(s) == Obj("bytes", <<"b", "'">> \o s \o <<"'">>, "")
PyInt(s) == Obj("int", s, "")
PyFloat(s) == Obj("float", s, "")
PyBool(b) == Obj("bool", IF b THEN <<"T", "r", "u", "e">> ELSE <<"F", "a", "l", "s", "e">>, "")
PyList(s) == Obj("list", s, "")
PyUUID(s) == Obj("UUID", s, "")
PyDecimal(s) == Obj("Decimal", s, "")
PyDateObj == Obj("date", <<>>, "")
PyDateTimeObj == Obj("datetime", <<>>, "")
PyFunction(ret) == Obj("function", <<"<", "f", "u", "n", "c", "t", "i", "o", "n", ">">>, ret)

UuidText == <<"5", "5", "0", "e", "8", "4", "0", "0", "-", "e", "2", "9", "b", "-", "4", "1", "d", "4", "-", "a", "7", "1", "6", "-", "4", "4", "6", "6", "5", "5", "4", "4", "0", "0", "0", "0">>
UuidSimple == <<"5", "5", "0", "E", "8", "4", "0", "0", "E", "2", "9", "B", "4", "1", "D", "4", "A", "7", "1", "6", "4", "4", "6", "6", "5", "5", "4", "4", "0", "0", "0", "0">>
LongFraction == <<"0", ".", "0", "0", "0", "0", "0", "0", "0", "0", "0", "0", "0", "0", "0", "0", "0", "0", "0", "0", "0", "0", "0", "0", "0", "0", "0", "0", "0", "1", "9">>

\* PyAny::is_callable
IsCallable(o) == o.tag = "function"

\* PyAny::call0 on a function of the model: it raises, or returns an object.
Call0(f) ==
    LET returns(v) == [raised |-> FALSE, value |-> v] IN
    CASE f.ret = "digits" -> returns(PyStr(<<"4", "2">>))
      [] f.ret = "price" -> returns(PyStr(<<"1", "9", ".", "9", "9">>))
      [] f.ret = "uuid" -> returns(PyStr(UuidText))
      [] f.ret = "word" -> returns(PyStr(<<"a", "b", "c">>))
      [] f.ret = "flag" -> returns(PyBool(TRUE))
      [] f.ret = "none" -> returns(PyNone)
      [] f.ret = "chain" -> returns(PyFunction("digits"))
      [] f.ret = "self" -> returns(f)
      [] OTHER -> [raised |-> TRUE, value |-> PyNone]

\* extract::<i64> takes the objects that have __index__, extract::<f64> those
\* that have __float__ (PyFloat_AsDouble).
ExtractsI64(o) == o.tag \in {"int", "bool"}
ExtractsF64(o) == o.tag \in {"float", "int", "bool", "Decimal"}

\* Python truth value (PyAny::is_true) and the types that define __bool__.
IsTrue(o) ==
    o.text \notin { <<"F", "a", "l", "s", "e">>, <<"N", "o", "n", "e">>, <<"0">>, <<"0", ".", "0">>, <<>>, <<"[", "]">>, <<"b", "'", "'">> }
HasDunderBool(o) == o.tag \in {"bool", "int", "float", "Decimal"}

\* Runs of digits as numbers too wide for machine words: comparison and
\* increment are computed on the digits.
AllDigits(s) == s # <<>> /\ \A i \in 1..Len(s) : IsDigit(s[i])

RECURSIVE StripZeros(_)
StripZeros(ds) ==
    IF Len(ds) > 1 /\ Head(ds) = "0" THEN StripZeros(Tail(ds)) ELSE ds

RECURSIVE LexLeq(_, _)
LexLeq(a, b) ==
    \/ a = <<>>
    \/ DigitVal(Head(a)) < DigitVal(Head(b))
    \/ Head(a) = Head(b) /\ LexLeq(Tail(a), Tail(b))

DigitsLeq(a, b) == Len(a) < Len(b) \/ (Len(a) = Len(b) /\ LexLeq(a, b))

RECURSIVE Increment(_)
Increment(ds) ==
    IF ds = <<>> THEN <<"1">>
    ELSE LET front == SubSeq(ds, 1, Len(ds) - 1)
             last == ds[Len(ds)]
         IN IF last = "9" THEN Append(Increment(front), "0")
            ELSE Append(front, DigitChars[DigitVal(last) + 2])

I64Max == <<"9", "2", "2", "3", "3", "7", "2", "0", "3", "6", "8", "5", "4", "7", "7", "5", "8", "0", "7">>
I64MinAbs == <<"9", "2", "2", "3", "3", "7", "2", "0", "3", "6", "8", "5", "4", "7", "7", "5", "8", "0", "8">>

\* str::parse::<i64>: an optional sign and digits, within the i64 range.  text
\* is what Python prints for the integer.
ParseI64(s) ==
    LET signed == s # <<>> /\ Head(s) \in {"+", "-"}
        neg == signed /\ Head(s) = "-"
        ds == IF signed THEN Tail(s) ELSE s
        m == StripZeros(ds)
    IN IF AllDigits(ds) /\ DigitsLeq(m, IF neg THEN I64MinAbs ELSE I64Max)
       THEN [ok |-> TRUE, text |-> IF neg /\ m # <<"0">> THEN <<"-">> \o m ELSE m]
       ELSE [ok |-> FALSE, text |-> <<>>]

\* The first position of character c in s, or 0.
IndexOf(s, c) ==
    IF \E i \in 1..Len(s) : s[i] = c
    THEN CHOOSE i \in 1..Len(s) : s[i] = c /\ \A j \in 1..(i - 1) : s[j] # c
    ELSE 0

\* str::parse::<f64>: whether the text is a float literal (sign, digits with
\* an optional point, optional exponent; or inf, infinity, nan in any case).
ParseF64(s) ==
    LET signed == s # <<>> /\ Head(s) \in {"+", "-"}
        body == ToLowercase(IF signed THEN Tail(s) ELSE s)
        e == IndexOf(body, "e")
        mant == IF e = 0 THEN body ELSE SubSeq(body, 1, e - 1)
        exp == IF e = 0 THEN <<"0">> ELSE Drop(body, e)
        expds == IF exp # <<>> /\ Head(exp) \in {"+", "-"} THEN Tail(exp) ELSE exp
        dot == IndexOf(mant, ".")
        ip == IF dot = 0 THEN mant ELSE SubSeq(mant, 1, dot - 1)
        fp == IF dot = 0 THEN <<>> ELSE Drop(mant, dot)
    IN \/ body \in { <<"i", "n", "f">>, <<"i", "n", "f", "i", "n", "i", "t", "y">>, <<"n", "a", "n">> }
       \/ /\ \A i \in 1..Len(ip) : IsDigit(ip[i])
          /\ \A i \in 1..Len(fp) : IsDigit(fp[i])
          /\ Len(ip) + Len(fp) > 0
          /\ AllDigits(expds)

\* Uuid::parse_str: the hyphenated form, bare, in braces or after urn:uuid:,
\* or 32 hexadecimal digits; text is Uuid::to_string (lowercase, hyphenated).
IsHex(c) == IsDigit(c) \/ LowerChar(c) \in {"a", "b", "c", "d", "e", "f"}
IsHyphenated(s) ==
    /\ Len(s) = 36
    /\ \A i \in 1..36 : IF i \in {9, 14, 19, 24} THEN s[i] = "-" ELSE IsHex(s[i])
UuidParseStr(s) ==
    LET body == IF Len(s) = 45 /\ SubSeq(s, 1, 9) = <<"u", "r", "n", ":", "u", "u", "i", "d", ":">> THEN Drop(s, 9)
                ELSE IF Len(s) = 38 /\ s[1] = "{" /\ s[38] = "}" THEN SubSeq(s, 2, 37)
                ELSE s
        low == ToLowercase(s)
    IN IF IsHyphenated(body) THEN [ok |-> TRUE, text |-> ToLowercase(body)]
       ELSE IF Len(s) = 32 /\ \A i \in 1..32 : IsHex(s[i])
       THEN [ok |-> TRUE,
             text |-> SubSeq(low, 1, 8) \o <<"-">> \o SubSeq(low, 9, 12) \o <<"-">>
                      \o SubSeq(low, 13, 16) \o <<"-">> \o SubSeq(low, 17, 20)
                      \o <<"-">> \o SubSeq(low, 21, 32)]
       ELSE [ok |-> FALSE, text |-> <<>>]

\* rust_decimal: a 96-bit mantissa and a scale of at most 28.
Max96 == <<"7", "9", "2", "2", "8", "1", "6", "2", "5", "1", "4", "2", "6", "4", "3", "3", "7", "5", "9", "3", "5", "4", "3", "9", "5", "0", "3", "3", "5">>
MaxScale == 28

\* The mantissa made of the digits before the point and the first k after it.
Mantissa(ipd, fpd, k) == StripZeros(<<"0">> \o ipd \o SubSeq(fpd, 1, k))
Fits(ipd, fpd, k) == \E m \in {Mantissa(ipd, fpd, k)} : DigitsLeq(m, Max96)

\* The first digit after the point that no longer fits (the scale is 28
\* already, or the mantissa would pass 96 bits) rounds the mantissa half up and
\* ends the number.  m is the mantissa, scale the number of fraction digits.
DecimalRound(m, fpd, kept) ==
    IF kept = Len(fpd) THEN [ok |-> TRUE, m |-> m, scale |-> kept]
    ELSE IF DigitVal(fpd[kept + 1]) < 5 THEN [ok |-> TRUE, m |-> m, scale |-> kept]
    ELSE IF \E r \in {Increment(m)} : DigitsLeq(r, Max96)
    THEN [ok |-> TRUE, m |-> Increment(m), scale |-> kept]
    ELSE [ok |-> FALSE, m |-> <<>>, scale |-> 0]

DecimalKeep(ipd, fpd) ==
    LET limit == IF Len(fpd) < MaxScale THEN Len(fpd) ELSE MaxScale
        Kept == { k \in 0..limit :
                    Fits(ipd, fpd, k) /\ (k = limit \/ ~Fits(ipd, fpd, k + 1)) }
    IN CHOOSE r \in { DecimalRound(m, fpd, k) :
                        m \in UNION { {Mantissa(ipd, fpd, k)} : k \in Kept },
                        k \in Kept } : TRUE

\* Decimal::from_str reads the digits into the mantissa (underscores are
\* skipped); digits before the point that do not fit are an error.
DecimalDigits(body) ==
    LET dot == IndexOf(body, ".")
        fail == [ok |-> FALSE, m |-> <<>>, scale |-> 0]
    IN IF \/ \E i \in 1..Len(body) : ~IsDigit(body[i]) /\ body[i] \notin {".", "_"}
          \/ \E i, j \in 1..Len(body) : i # j /\ body[i] = "." /\ body[j] = "."
          \/ \A i \in 1..Len(body) : ~IsDigit(body[i])
          \/ body[1] = "_"
       THEN fail
       ELSE CHOOSE r \in
              { IF Fits(ipd, fpd, 0) THEN DecimalKeep(ipd, fpd) ELSE fail :
                  ipd \in { SelectSeq(IF dot = 0 THEN body
                                      ELSE SubSeq(body, 1, dot - 1), IsDigit) },
                  fpd \in { SelectSeq(IF dot = 0 THEN <<>>
                                      ELSE Drop(body, dot), IsDigit) } } : TRUE

\* Decimal's Display: the mantissa with the point `scale` digits from its end.
DecimalToString(neg, m, scale) ==
    LET padded == IF Len(m) <= scale
                  THEN [i \in 1..(scale + 1 - Len(m)) |-> "0"] \o m
                  ELSE m
        ip == SubSeq(padded, 1, Len(padded) - scale)
        fp == Drop(padded, Len(padded) - scale)
    IN (IF neg THEN <<"-">> ELSE <<>>) \o ip
           \o (IF scale > 0 THEN <<".">> \o fp ELSE <<>>)

\* Decimal::from_str followed by to_string.
DecimalFromStr(s) ==
    LET signed == s # <<>> /\ Head(s) \in {"+", "-"}
        neg == signed /\ Head(s) = "-"
        body == IF signed THEN Tail(s) ELSE s
        d == DecimalDigits(body)
    IN IF d.ok
       THEN [ok |-> TRUE, text |-> DecimalToString(neg, d.m, d.scale)]
       ELSE [ok |-> FALSE, text |-> <<>>]

\* Decimal::from_f64_retain followed by to_string, for the finite doubles of
\* the model: every bit of the double's binary value is kept, up to the scale.
F64Retain(text) ==
    CASE text = <<"0", ".", "1">> -> <<"0", ".", "1", "0", "0", "0", "0", "0", "0", "0", "0", "0", "0", "0", "0", "0", "0", "0", "0", "5", "5", "5", "1", "1", "1", "5", "1", "2", "3", "1">>
      [] text = <<"T", "r", "u", "e">> -> <<"1">>
      [] OTHER -> text

---------------------------------------------------------------------------
(* The scalar coercers of rs_parsers, and rst_converters::to_boolean.      *)

\* PyResult<Option<..>> as Python sees it: Ok(None) is COk(PyNone); an error
\* carries the exception's type and message.  CRun: the call has not returned.
\* CStackOverflow: the recursion exhausted the native stack.
COk(v) == [st |-> "ok", value |-> v, exc |-> "", msg |-> <<>>]
CErr(exc, m) == [st |-> "err", value |-> PyNone, exc |-> exc, msg |-> m]
CRun == [st |-> "run", value |-> PyNone, exc |-> "", msg |-> <<>>]
CStackOverflow == [st |-> "overflow", value |-> PyNone, exc |-> "", msg |-> <<>>]

\* `?` on a Python call that raised: the callee's exception leaves the coercer.
Raised == CErr("raised by the callable", <<>>)

\* What one activation of a coercer does: it returns res, or calls itself on
\* arg; calls and parses are the callables and parsers it invoked.
Return(res, calls, parses) ==
    [kind |-> "return", res |-> res, arg |-> PyNone, calls |-> calls, parses |-> parses]
Recurse(arg, calls) ==
    [kind |-> "recurse", res |-> CRun, arg |-> arg, calls |-> calls, parses |-> <<>>]

\* `val.call0()?` followed by the coercer applied to the result.
CallThenRecurse(o) ==
    IF Call0(o).raised THEN Return(Raised, <<o.ret>>, <<>>)
    ELSE Recurse(Call0(o).value, <<o.ret>>)

\* The argument as the #[pyfunction] receives it: Python's None arrives as
\* Option::None only in the call made from Python (top); a recursive call
\* passes Some(object) whatever the object is.
IsRustNone(o, top) == top /\ o = PyNone

\* rs_parsers::to_string
to_string(o, top) ==
    IF IsRustNone(o, top) \/ o = PyNone THEN Return(COk(PyNone), <<>>, <<>>)
    ELSE IF o.tag = "str" THEN Return(COk(o), <<>>, <<>>)
    ELSE IF o.tag = "bytes"
    THEN Return(COk(PyStr(SubSeq(o.text, 3, Len(o.text) - 1))), <<>>, <<>>)
    ELSE IF IsCallable(o)
    THEN IF Call0(o).raised THEN Return(Raised, <<o.ret>>, <<>>)
         ELSE IF Call0(o).value.tag = "str"
         THEN Return(COk(Call0(o).value), <<o.ret>>, <<>>)
         ELSE Return(CErr("TypeError", <<"C", "a", "l", "l", "a", "b", "l", "e", " ", "d", "i", "d", " ", "n", "o", "t", " ", "r", "e", "t", "u", "r", "n", " ", "a", " ", "s", "t", "r", "i", "n", "g">>),
                     <<o.ret>>, <<>>)
    ELSE Return(COk(PyStr(o.text)), <<>>, <<>>)

\* A strtobool result as the coercer's result.
FromBool(r) == IF r.st = "ok" THEN COk(PyBool(r.value)) ELSE CErr("ValueError", r.msg)

\* rs_parsers::to_boolean
parsers_to_boolean(o, top) ==
    IF IsRustNone(o, top) \/ o = PyNone THEN Return(COk(PyNone), <<>>, <<>>)
    ELSE IF o.tag = "bool" THEN Return(COk(o), <<>>, <<>>)
    ELSE IF o.tag = "str"
    THEN Return(FromBool(parsers_strtobool(o.text)), <<>>, <<"strtobool">>)
    ELSE IF HasDunderBool(o) THEN Return(COk(PyBool(IsTrue(o))), <<>>, <<>>)
    ELSE Return(CErr("AttributeError", <<"o", "b", "j", "e", "c", "t", " ", "h", "a", "s", " ", "n", "o", " ", "a", "t", "t", "r", "i", "b", "u", "t", "e", " ", "'", "_", "_", "b", "o", "o", "l", "_", "_", "'">>),
                <<>>, <<>>)

\* rst_converters::to_boolean
converters_to_boolean(o, top) ==
    IF IsRustNone(o, top) \/ o = PyNone THEN Return(COk(PyNone), <<>>, <<>>)
    ELSE IF o.tag = "bool" THEN Return(COk(o), <<>>, <<>>)
    ELSE IF o.tag = "str"
    THEN Return(FromBool(converters_strtobool(o.text)), <<>>, <<"strtobool">>)
    ELSE IF IsCallable(o)
    THEN IF Call0(o).raised THEN Return(COk(PyNone), <<o.ret>>, <<>>)
         ELSE IF Call0(o).value.tag = "bool"
         THEN Return(COk(Call0(o).value), <<o.ret>>, <<>>)
         ELSE Return(CErr("TypeError", <<"o", "b", "j", "e", "c", "t", " ", "c", "a", "n", "n", "o", "t", " ", "b", "e", " ", "c", "o", "n", "v", "e", "r", "t", "e", "d", " ", "t", "o", " ", "'", "P", "y", "B", "o", "o", "l", "'">>),
                     <<o.ret>>, <<>>)
    ELSE Return(COk(PyBool(IsTrue(o))), <<>>, <<>>)

\* The `input: &str` argument of to_date and to_datetime: anything but a str
\* is refused before the function body runs.
MsgNotAString == <<"a", "r", "g", "u", "m", "e", "n", "t", " ", "'", "i", "n", "p", "u", "t", "'", ":", " ", "o", "b", "j", "e", "c", "t", " ", "c", "a", "n", "n", "o", "t", " ", "b", "e", " ", "c", "o", "n", "v", "e", "r", "t", "e", "d", " ", "t", "o", " ", "'", "P", "y", "S", "t", "r", "i", "n", "g", "'">>

AttemptNames(att) == [i \in 1..Len(att) |-> att[i].parser]

\* rs_parsers::to_date called with one argument
coerce_to_date(o) ==
    IF o.tag # "str" THEN Return(CErr("TypeError", MsgNotAString), <<>>, <<>>)
    ELSE CHOOSE step \in
           { Return(IF r.st = "ok" THEN COk(PyDateObj) ELSE CErr("ValueError", r.msg),
                    <<>>, AttemptNames(r.attempts)) :
               r \in { parsers_to_date(o.text, NoFormat) } } : TRUE

\* rs_parsers::to_datetime called with one argument
coerce_to_datetime(o) ==
    IF o.tag # "str" THEN Return(CErr("TypeError", MsgNotAString), <<>>, <<>>)
    ELSE CHOOSE step \in
           { Return(IF r.st = "ok" THEN COk(PyDateTimeObj) ELSE CErr("ValueError", r.msg),
                    <<>>, AttemptNames(r.attempts)) :
               r \in { parsers_to_datetime(o.text, NoFormat) } } : TRUE

\* rs_parsers::python_uuid
python_uuid(parsed_uuid) == PyUUID(parsed_uuid.text)

\* rs_parsers::to_uuid_obj
to_uuid_obj(o, top) ==
    LET called == IsCallable(o)
        calls == IF called THEN <<o.ret>> ELSE <<>>
        from_call == UuidParseStr(Call0(o).value.text)
        from_str == UuidParseStr(o.text)
    IN IF IsRustNone(o, top) THEN Return(COk(PyNone), <<>>, <<>>)
       ELSE IF o.tag = "UUID" THEN Return(COk(o), <<>>, <<>>)
       ELSE IF called /\ ~Call0(o).raised /\ from_call.ok
       THEN Return(COk(python_uuid(from_call)), calls, <<"Uuid::parse_str">>)
       ELSE IF from_str.ok
       THEN Return(COk(python_uuid(from_str)), calls,
                   IF called /\ ~Call0(o).raised
                   THEN <<"Uuid::parse_str", "Uuid::parse_str">>
                   ELSE <<"Uuid::parse_str">>)
       ELSE Return(COk(PyNone), calls,
                   IF called /\ ~Call0(o).raised
                   THEN <<"Uuid::parse_str", "Uuid::parse_str">>
                   ELSE <<"Uuid::parse_str">>)

\* datamodel.converters.to_uuid is a Cython function that is not among these
\* sources; it is modelled by its description: a UUID is returned unchanged, a
\* callable is invoked once and its result used, text that parses as a UUID
\* gives that UUID, and anything else gives None.
CythonToUuid(o) ==
    LET called == IsCallable(o)
        src == IF called /\ ~Call0(o).raised THEN Call0(o).value ELSE o
        calls == IF called THEN <<o.ret>> ELSE <<>>
        parses == <<"datamodel.converters.to_uuid">>
    IN IF src.tag = "UUID" THEN Return(COk(src), calls, parses)
       ELSE IF src.tag = "str" /\ UuidParseStr(src.text).ok
       THEN Return(COk(PyUUID(UuidParseStr(src.text).text)), calls, parses)
       ELSE Return(COk(PyNone), calls, parses)

\* rs_parsers::to_uuid
to_uuid(o, top) ==
    IF IsRustNone(o, top) THEN Return(COk(PyNone), <<>>, <<>>)
    ELSE CythonToUuid(o)

\* rs_parsers::to_uuid_str
to_uuid_str(o, top) ==
    IF IsRustNone(o, top) THEN Return(COk(PyNone), <<>>, <<>>)
    ELSE IF o.tag = "UUID" THEN Return(COk(o), <<>>, <<>>)
    ELSE IF IsCallable(o)
    THEN IF Call0(o).raised THEN Return(Raised, <<o.ret>>, <<>>)
         ELSE [to_uuid(Call0(o).value, FALSE) EXCEPT !.calls = <<o.ret>> \o @]
    ELSE IF UuidParseStr(o.text).ok
    THEN Return(COk(PyStr(o.text)), <<>>, <<"Uuid::parse_str">>)
    ELSE Return(COk(PyNone), <<>>, <<"Uuid::parse_str">>)

MsgInvalidIntegerString == <<"I", "n", "v", "a", "l", "i", "d", " ", "i", "n", "t", "e", "g", "e", "r", " ", "s", "t", "r", "i", "n", "g", ":", " ">>
MsgInvalidInteger == <<"I", "n", "v", "a", "l", "i", "d", " ", "c", "o", "n", "v", "e", "r", "s", "i", "o", "n", " ", "t", "o", " ", "I", "n", "t", "e", "g", "e", "r", " ", "o", "f", " ">>
MsgInvalidFloatString == <<"I", "n", "v", "a", "l", "i", "d", " ", "f", "l", "o", "a", "t", " ", "s", "t", "r", "i", "n", "g", ":", " ">>
MsgInvalidFloat == <<"I", "n", "v", "a", "l", "i", "d", " ", "c", "o", "n", "v", "e", "r", "s", "i", "o", "n", " ", "t", "o", " ", "F", "l", "o", "a", "t", " ", "o", "f", " ">>
MsgInvalidDecimalString == <<"I", "n", "v", "a", "l", "i", "d", " ", "d", "e", "c", "i", "m", "a", "l", " ", "s", "t", "r", "i", "n", "g", ":", " ">>
MsgInvalidDecimal == <<"I", "n", "v", "a", "l", "i", "d", " ", "c", "o", "n", "v", "e", "r", "s", "i", "o", "n", " ", "t", "o", " ", "D", "e", "c", "i", "m", "a", "l", " ", "o", "f", " ">>

\* rs_parsers::to_integer
to_integer(o, top) ==
    IF IsRustNone(o, top) THEN Return(COk(PyNone), <<>>, <<>>)
    ELSE IF o.tag \in {"int", "bool"} THEN Return(COk(o), <<>>, <<>>)
    ELSE IF o.tag = "str"
    THEN IF ParseI64(o.text).ok
         THEN Return(COk(PyInt(ParseI64(o.text).text)), <<>>, <<"str::parse::<i64>">>)
         ELSE Return(CErr("ValueError", MsgInvalidIntegerString \o o.text),
                     <<>>, <<"str::parse::<i64>">>)
    ELSE IF IsCallable(o) THEN CallThenRecurse(o)
    ELSE IF ExtractsI64(o) THEN Return(COk(PyInt(o.text)), <<>>, <<"extract::<i64>">>)
    ELSE Return(CErr("ValueError", MsgInvalidInteger \o o.text),
                <<>>, <<"extract::<i64>">>)

\* rs_parsers::to_float
to_float(o, top) ==
    IF IsRustNone(o, top) THEN Return(COk(PyNone), <<>>, <<>>)
    ELSE IF o.tag = "float" THEN Return(COk(o), <<>>, <<>>)
    ELSE IF o.tag = "str"
    THEN IF ParseF64(o.text)
         THEN Return(COk(PyFloat(o.text)), <<>>, <<"str::parse::<f64>">>)
         ELSE Return(CErr("ValueError", MsgInvalidFloatString \o o.text),
                     <<>>, <<"str::parse::<f64>">>)
    ELSE IF IsCallable(o) THEN CallThenRecurse(o)
    ELSE IF ExtractsF64(o) THEN Return(COk(PyFloat(o.text)), <<>>, <<"extract::<f64>">>)
    ELSE Return(CErr("ValueError", MsgInvalidFloat \o o.text),
                <<>>, <<"extract::<f64>">>)

\* rs_parsers::to_decimal
to_decimal(o, top) ==
    IF IsRustNone(o, top) THEN Return(COk(PyNone), <<>>, <<>>)
    ELSE IF o.tag = "Decimal" THEN Return(COk(o), <<>>, <<>>)
    ELSE IF o.tag = "str"
    THEN IF DecimalFromStr(o.text).ok
         THEN Return(COk(PyDecimal(DecimalFromStr(o.text).text)),
                     <<>>, <<"Decimal::from_str">>)
         ELSE Return(CErr("ValueError", MsgInvalidDecimalString \o o.text),
                     <<>>, <<"Decimal::from_str">>)
    ELSE IF IsCallable(o) THEN CallThenRecurse(o)
    ELSE IF ExtractsF64(o)
    THEN Return(COk(PyDecimal(F64Retain(o.text))),
                <<>>, <<"extract::<f64>", "Decimal::from_f64_retain">>)
    ELSE Return(CErr("ValueError", MsgInvalidDecimal \o o.text),
                <<>>, <<"extract::<f64>">>)

(* The calls checked: one entry point applied to one object.  A coercer    *)
(* that calls itself takes one step per activation, and the native stack   *)
(* holds MaxDepth activations.                                             *)
MaxDepth == 4

EntryPoints ==
    { "to_string", "to_boolean", "rst_converters.to_boolean", "to_date",
      "to_datetime", "to_uuid_obj", "to_uuid_str", "to_uuid", "to_integer",
      "to_float", "to_decimal" }

Functions ==
    { PyFunction(r) : r \in { "digits", "price", "uuid", "word", "flag", "none",
                              "chain", "self", "raises" } }

Objects ==
    { PyNone, PyInt(<<"4", "2">>), PyFloat(<<"1", ".", "5">>), PyFloat(<<"0", ".", "1">>), PyBool(TRUE),
      PyList(<<"[", "1", ",", " ", "2", "]">>), PyUUID(UuidText), PyDecimal(<<"1", "9", ".", "9", "9">>), PyBytes(<<"a", "b", "c">>) }
    \cup { PyStr(s) : s \in { <<"4", "2">>, <<"a", "b", "c">>, <<"1", "9", ".", "9", "9">>, <<"-", "7", ".", "5", "0">>, <<"t", "r", "u", "e">>, <<>>,
                              <<"2", "0", "2", "4", "-", "0", "3", "-", "0", "1">>, UuidText, UuidSimple, LongFraction } }
    \cup Functions

InitCoerce ==
    /\ entry \in EntryPoints
    /\ obj \in Objects
    /\ depth = 1
    /\ invoked = <<>>
    /\ parsed = <<>>
    /\ cres = CRun
    /\ val = <<>> /\ bres = <<>>
    /\ input = <<>> /\ custom_format = NoFormat /\ tres = TNone
    /\ record = <<>> /\ pc = "idle" /\ vresult = RNone /\ presult = RNone
    /\ field_infos = <<>> /\ slots = <<>> /\ claimed = <<>> /\ completed = <<>>
    /\ IdleStamp

\* One activation of the entry point called; step is what the activation does.
Activate(step) ==
    /\ invoked' = invoked \o step.calls
    /\ parsed' = parsed \o step.parses
    /\ IF step.kind = "return"
       THEN cres' = step.res /\ UNCHANGED <<obj, depth>>
       ELSE IF depth = MaxDepth
       THEN cres' = CStackOverflow /\ UNCHANGED <<obj, depth>>
       ELSE obj' = step.arg /\ depth' = depth + 1 /\ UNCHANGED cres
    /\ UNCHANGED <<entry, boolVars, tempVars, orchVars, stampVars>>

CallToString ==
    /\ entry = "to_string" /\ cres = CRun
    /\ \E step \in { to_string(obj, depth = 1) } : Activate(step)

CallToBoolean ==
    /\ entry = "to_boolean" /\ cres = CRun
    /\ \E step \in { parsers_to_boolean(obj, depth = 1) } : Activate(step)

CallConvertersToBoolean ==
    /\ entry = "rst_converters.to_boolean" /\ cres = CRun
    /\ \E step \in { converters_to_boolean(obj, depth = 1) } : Activate(step)

CallToDate ==
    /\ entry = "to_date" /\ cres = CRun
    /\ \E step \in { coerce_to_date(obj) } : Activate(step)

CallToDatetime ==
    /\ entry = "to_datetime" /\ cres = CRun
    /\ \E step \in { coerce_to_datetime(obj) } : Activate(step)

CallToUuidObj ==
    /\ entry = "to_uuid_obj" /\ cres = CRun
    /\ \E step \in { to_uuid_obj(obj, depth = 1) } : Activate(step)

CallToUuidStr ==
    /\ entry = "to_uuid_str" /\ cres = CRun
    /\ \E step \in { to_uuid_str(obj, depth = 1) } : Activate(step)

CallToUuid ==
    /\ entry = "to_uuid" /\ cres = CRun
    /\ \E step \in { to_uuid(obj, depth = 1) } : Activate(step)

CallToInteger ==
    /\ entry = "to_integer" /\ cres = CRun
    /\ \E step \in { to_integer(obj, depth = 1) } : Activate(step)

CallToFloat ==
    /\ entry = "to_float" /\ cres = CRun
    /\ \E step \in { to_float(obj, depth = 1) } : Activate(step)

CallToDecimal ==
    /\ entry = "to_decimal" /\ cres = CRun
    /\ \E step \in { to_decimal(obj, depth = 1) } : Activate(step)

NextCoerce ==
    \/ CallToString \/ CallToBoolean \/ CallConvertersToBoolean \/ CallToDate \/ CallToDatetime
    \/ CallToUuidObj \/ CallToUuidStr \/ CallToUuid \/ CallToInteger \/ CallToFloat \/ CallToDecimal

SpecCoerce == InitCoerce /\ [][NextCoerce]_vars

\* The scheduler runs a call that can take a step.
SpecCoerceFair == SpecCoerce /\ WF_vars(NextCoerce)

(* Claims about strtobool (checked under SpecBool).                        *)

C7_True == { <<"y">>, <<"y", "e", "s">>, <<"t">>, <<"t", "r", "u", "e">>, <<"o", "n">>, <<"1">> }
C7_False == { <<"n">>, <<"n", "o">>, <<"f">>, <<"f", "a", "l", "s", "e">>, <<"o", "f", "f">>, <<"0">> }
C7_None == { <<"n", "o", "n", "e">>, <<"n", "u", "l", "l">> }

\* The outcome the claim states for implementation i, with `extra` further
\* tokens read as false.
C7_AsStated(i, extra) ==
    LET t == ToLowercase(Trim(val))
        r == bres[i]
    IN r.st # "none" =>
         /\ t \in C7_True => r = BoolOk(TRUE)
         /\ t \in C7_False \cup extra => r = BoolOk(FALSE)
         /\ t \notin C7_True \cup C7_False \cup extra =>
                r.st = "err" /\ Contains(r.msg, val)

C7_Examples(i) ==
    bres[i].st # "none" =>
         /\ val = <<"Y", "E", "S">> => bres[i] = BoolOk(TRUE)
         /\ val = <<"O", "f", "f">> => bres[i] = BoolOk(FALSE)
         /\ val = <<"m", "a", "y", "b", "e">> => bres[i].st = "err"

\* C7, as stated: both implementations return true exactly for y, yes, t,
\* true, on, 1, false for n, no, f, false, off, 0, and fail on every other
\* (trimmed, lower-cased) input with a message holding the input.
C7_Original == \A i \in BoolImpls : C7_AsStated(i, {})

\* C7, amended: as stated for rst_converters; rs_parsers also returns false
\* for none and null, and fails on every other input.
C7_TruthTable ==
    /\ C7_AsStated("rst_converters", {})
    /\ C7_AsStated("rs_parsers", C7_None)
    /\ \A i \in BoolImpls : C7_Examples(i)

\* Both implementations were called on a padded, upper-case NULL.
C7_Witness ==
    /\ val = <<" ", "N", "U", "L", "L">>
    /\ bres["rs_parsers"] = BoolOk(FALSE)
    /\ bres["rst_converters"].st = "err"

---------------------------------------------------------------------------
(* Claims about to_date / to_datetime (checked under SpecTemporal).        *)

Blank(s) == \A i \in 1..Len(s) : s[i] \in {" ", "\t", "\n"}

\* C8: an empty or all-whitespace input fails with 'Input string is empty'
\* and no parser has been invoked, with or without a custom format.
C8_EmptyRejectedFirst ==
    (tres.st # "none" /\ Blank(input)) =>
        /\ tres.st = "err"
        /\ tres.msg = MsgInputEmpty
        /\ tres.attempts = <<>>

\* to_datetime was called on two whitespace characters with a custom format
\* made of whitespace, and rejected.
C8_Witness ==
    /\ input = <<" ", "\t">>
    /\ custom_format = SomeFormat(<<" ">>)
    /\ tres.fn = "rs_parsers.to_datetime"
    /\ tres.st = "err"

\* The nine fallback patterns in the order the specification lists them.
C9_Listed ==
    << <<"%", "Y", "-", "%", "m", "-", "%", "d">>, <<"%", "m", "/", "%", "d", "/", "%", "Y">>, <<"%", "m", "-", "%", "d", "-", "%", "Y">>, <<"%", "d", "-", "%", "m", "-", "%", "Y">>, <<"%", "Y", "/", "%", "m", "/", "%", "d">>,
       <<"%", "Y", "-", "%", "m", "-", "%", "d", "T", "%", "H", ":", "%", "M", ":", "%", "S", "%", ".", "f">>, <<"%", "Y", "-", "%", "m", "-", "%", "d", " ", "%", "H", ":", "%", "M", ":", "%", "S">>, <<"%", "d", "/", "%", "m", "/", "%", "Y">>, <<"%", "d", ".", "%", "m", ".", "%", "Y">> >>

C9_IsDate(fn) == fn \in {"rs_parsers.to_date", "rst_converters.to_date"}

C9_Patterns(parser, fmts) == [i \in 1..Len(fmts) |-> Attempt(parser, fmts[i])]

\* The steps in the order the claim gives them.
C9_StatedSteps(fn) ==
    IF C9_IsDate(fn)
    THEN <<Attempt("SpeeDate::parse_str", <<>>)>>
             \o C9_Patterns("NaiveDate::parse_from_str", C9_Listed)
    ELSE <<Attempt("SpeeDateTime::parse_str", <<>>),
           Attempt("DateTime::parse_from_rfc3339", <<>>)>>
             \o C9_Patterns("NaiveDateTime::parse_from_str", C9_Listed)

\* The same, with the two ISO "T" patterns rst_converters.to_datetime tries
\* between the offset parse and the nine patterns.
C9_ActualSteps(fn) ==
    IF fn = "rst_converters.to_datetime"
    THEN <<Attempt("SpeeDateTime::parse_str", <<>>),
           Attempt("DateTime::parse_from_rfc3339", <<>>)>>
             \o C9_Patterns("NaiveDateTime::parse_from_str",
                            << <<"%", "Y", "-", "%", "m", "-", "%", "d", "T", "%", "H", ":", "%", "M", ":", "%", "S">>, <<"%", "Y", "-", "%", "m", "-", "%", "d", "T", "%", "H", ":", "%", "M", ":", "%", "S", "%", ".", "f">> >>)
             \o C9_Patterns("NaiveDateTime::parse_from_str", C9_Listed)
    ELSE C9_StatedSteps(fn)

C9_Parse(a, inp) ==
    CASE a.parser = "SpeeDate::parse_str" -> SpeeDateParseStr(inp)
      [] a.parser = "SpeeDateTime::parse_str" -> SpeeDateTimeParseStr(inp)
      [] a.parser = "DateTime::parse_from_rfc3339" -> ParseFromRfc3339(inp)
      [] a.parser = "NaiveDate::parse_from_str" -> NaiveDateParseFromStr(inp, a.fmt)
      [] a.parser = "NaiveDateTime::parse_from_str" -> NaiveDateTimeParseFromStr(inp, a.fmt)

\* The calendar reading step `a` gives of the input.
C9_Reading(a, inp) ==
    LET p == C9_Parse(a, inp) IN
    IF a.parser = "DateTime::parse_from_rfc3339"
    THEN <<UtcTimestamp(p)>>
    ELSE IF a.parser \in {"SpeeDate::parse_str", "NaiveDate::parse_from_str"}
    THEN <<p.year, p.month, p.day>>
    ELSE <<p.year, p.month, p.day, p.hour, p.minute, p.second>>

C9_Returned(v) ==
    CASE v.kind = "fromtimestamp" -> <<v.ts>>
      [] v.kind = "date" -> <<v.year, v.month, v.day>>
      [] OTHER -> <<v.year, v.month, v.day, v.hour, v.minute, v.second>>

\* First match wins over `steps`: the attempts made follow `steps` in order,
\* stop at the first step that accepts the input, and the value returned is
\* that step's reading.
C9_FirstMatch(steps) ==
    LET n == Len(tres.attempts)
        accepting == { i \in 1..Len(steps) : C9_Parse(steps[i], input).ok }
    IN /\ \A i \in 1..n : i <= Len(steps) => tres.attempts[i] = steps[i]
       /\ accepting # {} =>
            LET first == CHOOSE i \in accepting : \A j \in accepting : i <= j IN
            /\ n = first
            /\ tres.st = "ok"
            /\ C9_Returned(tres.value) = C9_Reading(steps[first], input)
       /\ accepting = {} => n >= Len(steps)

C10_Call(fn, inp, custom) ==
    CASE fn = "rs_parsers.to_date" -> parsers_to_date(inp, custom)
      [] fn = "rs_parsers.to_datetime" -> parsers_to_datetime(inp, custom)
      [] fn = "rst_converters.to_date" -> converters_to_date(inp, custom)
      [] fn = "rst_converters.to_datetime" -> converters_to_datetime(inp, custom)

\* C10: an input a built-in step accepts gives the same result with and
\* without the custom format, and without a custom format every pattern
\* tried is a built-in one.
C10_CustomLast ==
    (tres.st # "none" /\ ~Blank(input)) =>
        /\ C10_Call(tres.fn, input, NoFormat).st = "ok" =>
               tres = C10_Call(tres.fn, input, NoFormat)
        /\ ~custom_format.some =>
               \A i \in 1..Len(tres.attempts) :
                   tres.attempts[i].fmt \in
                       { C9_Listed[j] : j \in 1..9 } \cup { <<>>, <<"%", "Y", "-", "%", "m", "-", "%", "d", "T", "%", "H", ":", "%", "M", ":", "%", "S">> }
                   /\ (tres.attempts[i].fmt = <<>> =>
                         tres.attempts[i].parser \notin
                           {"NaiveDate::parse_from_str", "NaiveDateTime::parse_from_str"})

---------------------------------------------------------------------------
(* Claims about the orchestrators (checked under Spec and SpecPool).       *)

\* What parse_datamodel returns for record rec, whatever the schedule.
ParseAlone(rec) ==
    LET r == get_field_info(rec) IN
    IF r.ok THEN ROk([i \in 1..Len(r.infos) |-> MapField(r.infos[i])]) ELSE RErr

\* The record without its i-th field.
Without(rec, i) == [k \in 1..(Len(rec) - 1) |-> IF k < i THEN rec[k] ELSE rec[k + 1]]

\* The result list without its i-th entry.
Others(list, i) == [k \in 1..(Len(list) - 1) |-> IF k < i THEN list[k] ELSE list[k + 1]]

\* C1: each orchestrator that returns gives a list as long as the record,
\* whatever the declared types and values.
C1_OneEntryPerField ==
    /\ vresult.st = "ok" => Len(vresult.list) = Len(record)
    /\ presult.st = "ok" => Len(presult.list) = Len(record)

\* A value that cannot be extracted for its declared numeric type: a string
\* that is not a number.
C2_Fails(f) ==
    /\ f.type \in {"int", "float"}
    /\ f.value.tag = "str"
    /\ \E k \in 1..Len(f.value.text) : ~IsDigit(f.value.text[k])

\* C2: with such a field in the record both orchestrators return normally,
\* report that field invalid, and give every other field the outcome it has
\* in a record of its own.
C2_FailureIsolated ==
    \A i \in 1..Len(record) : C2_Fails(record[i]) =>
        /\ vresult.st # "none" =>
              /\ vresult.st = "ok"
              /\ vresult.list[i] = Entry(record[i].name, FALSE)
              /\ \A j \in 1..Len(record) : j # i =>
                    vresult.list[j] = validate_datamodel(<<record[j]>>).list[1]
        /\ pc = "done" =>
              /\ presult.st = "ok"
              /\ Len(presult.list) = Len(record)
              /\ presult.list[i] = Entry(record[i].name, FALSE)
              /\ \A j \in 1..Len(record) : j # i =>
                    <<presult.list[j]>> = ParseAlone(<<record[j]>>).list

\* C3: a field declared with the unsupported token is reported invalid by
\* both orchestrators, and its siblings get what the record without it gets.
C3_UnsupportedReported ==
    \A i \in 1..Len(record) : record[i].type = "complex" =>
        /\ vresult.st = "ok" =>
              /\ vresult.list[i] = Entry(record[i].name, FALSE)
              /\ Others(vresult.list, i) = validate_datamodel(Without(record, i)).list
        /\ presult.st = "ok" =>
              /\ Len(presult.list) = Len(record)
              /\ presult.list[i] = Entry(record[i].name, FALSE)
              /\ Others(presult.list, i) = ParseAlone(Without(record, i)).list

\* C4: whatever order the workers finish in, the i-th entry returned is the
\* closure's result for the i-th item handed to the pool.
C4_InputOrder ==
    (pc = "done" /\ presult.st = "ok") =>
        /\ Len(presult.list) = Len(field_infos)
        /\ \A i \in 1..Len(field_infos) :
              /\ presult.list[i].name = field_infos[i].field_name
              /\ presult.list[i] = MapField(field_infos[i])
        /\ presult = ParseAlone(record)

\* Three items were finished last-first-second, and the results differ.
C4_Witness ==
    /\ pc = "done"
    /\ completed = <<3, 1, 2>>
    /\ presult.list[1].valid
    /\ ~presult.list[3].valid

\* The runtime type the table gives each declared type, under either
\* spelling of the class name.
C5_TagOf(t) ==
    CASE t \in {"str", "int", "float", "bool"} -> t
      [] t \in {"datetime.datetime", "datetime"} -> "datetime"
      [] t \in {"datetime.date", "date"} -> "date"
      [] t \in {"datetime.time", "time"} -> "time"
      [] OTHER -> "none"

C5_Matches(f) == f.value.tag = C5_TagOf(f.type)

\* C5: a record whose every field holds a value of its declared table type
\* is reported all valid by both orchestrators.
C5_MatchingAccepted ==
    (\A i \in 1..Len(record) : C5_Matches(record[i])) =>
        /\ vresult.st # "none" =>
              vresult = ROk([i \in 1..Len(record) |-> Entry(record[i].name, TRUE)])
        /\ pc = "done" =>
              presult = ROk([i \in 1..Len(record) |-> Entry(record[i].name, TRUE)])

\* The string parses under the grammar of the declared type.
C6_Parses(f) ==
    /\ f.value.tag = "str"
    /\ CASE f.type = "str" -> TRUE
         [] f.type = "int" -> \A k \in 1..Len(f.value.text) : IsDigit(f.value.text[k])
         [] f.type \in {"datetime.date", "date"} ->
                NaiveDateParseFromStr(f.value.text, F_Ymd).ok
         [] OTHER -> FALSE

C6_Covered(f) == f.value.tag = "str" /\ f.type \in {"str", "int", "datetime.date", "date"}

\* C6: in a record of raw strings each field is reported valid exactly when
\* its string parses under its declared type, by both orchestrators.
C6_StringsCoerced ==
    (\A i \in 1..Len(record) : C6_Covered(record[i])) =>
        /\ vresult.st # "none" =>
              vresult = ROk([i \in 1..Len(record) |->
                                Entry(record[i].name, C6_Parses(record[i]))])
        /\ pc = "done" =>
              presult = ROk([i \in 1..Len(record) |->
                                Entry(record[i].name, C6_Parses(record[i]))])

---------------------------------------------------------------------------
(* Further claims about to_date / to_datetime (checked under SpecTemporal). *)

\* The pattern holds a time of day.
C11_HasTime(f) == \E k \in 1..(Len(f) - 1) : f[k] = "%" /\ f[k + 1] = "H"

\* inp is a valid literal of pattern f: it is consumed whole by the pattern
\* and the fields read form a calendar date (and time of day).
C11_Literal(inp, f) ==
    IF C11_HasTime(f)
    THEN NaiveDateTimeParseFromStr(inp, f).ok
    ELSE NaiveDateParseFromStr(inp, f).ok

\* C11: an input that is a valid literal of one of the nine patterns, or of
\* the custom format supplied, is converted by to_date and by to_datetime.
C11_LiteralsAccepted ==
    (tres.st # "none" /\ ~Blank(input)) =>
        ((\/ \E j \in 1..9 : C11_Literal(input, C9_Listed[j])
          \/ custom_format.some /\ C11_Literal(input, custom_format.fmt))
            => tres.st = "ok")

\* The patterns of the attempts made, in order (the fast path and the offset
\* parse take no pattern).
C12_Tried ==
    LET idx == { i \in 1..Len(tres.attempts) :
                    tres.attempts[i].parser \in
                        {"NaiveDate::parse_from_str", "NaiveDateTime::parse_from_str"} }
        F[i \in 0..Len(tres.attempts)] ==
            IF i = 0 THEN <<>>
            ELSE IF i \in idx THEN Append(F[i - 1], tres.attempts[i].fmt)
            ELSE F[i - 1]
    IN F[Len(tres.attempts)]

C12_EndsWith(s, t) ==
    /\ Len(t) <= Len(s)
    /\ SubSeq(s, Len(s) - Len(t) + 1, Len(s)) = t

\* C12: when no attempt accepts the input, the error names the input and
\* ends with the list of the patterns attempted; each of them is one of the
\* nine built-in patterns or the custom format supplied.
C12_ErrorListsTried ==
    (/\ tres.st = "err"
     /\ ~Blank(input)
     /\ \A i \in 1..Len(tres.attempts) : ~C9_Parse(tres.attempts[i], input).ok) =>
        /\ Contains(tres.msg, <<"'">> \o input \o <<"'">>)
        /\ C12_EndsWith(tres.msg, DebugVec(C12_Tried))
        /\ \A k \in 1..Len(C12_Tried) :
              \/ \E j \in 1..9 : C12_Tried[k] = C9_Listed[j]
              \/ custom_format.some /\ C12_Tried[k] = custom_format.fmt

---------------------------------------------------------------------------
(* Claims about to_timestamp (checked under SpecStamp).                    *)

\* The timestamp is finite and its whole seconds fall in years 1..9999.
C13_InRange ==
    /\ timestamp.kind = "finite"
    /\ timestamp.day \in DaysFromCivil(1, 1, 1)..DaysFromCivil(9999, 12, 31)

\* e is the fraction num / 2^bits in microseconds, rounded to nearest.
C13_IsRounded(e, num, bits) ==
    IF bits <= 6 THEN e = num * (1000000 \div 2^bits)
    ELSE LET d == 2^(bits - 6)
             whole == e - (num \div d) * 15625
             diff == whole * d - (num % d) * 15625
             a == IF diff < 0 THEN 0 - diff ELSE diff
         IN whole \in 0..15625 /\ 2 * a <= d

\* C13: for a timestamp in range, the datetime returned has the whole
\* seconds of t and its fraction rounded to microseconds, so that converting
\* back gives t within a microsecond.
C13_TimestampInverse ==
    \A i \in StampImpls :
        (sres[i].st # "none" /\ C13_InRange) =>
            /\ sres[i].st = "ok"
            /\ DaysFromCivil(sres[i].value.year, sres[i].value.month,
                             sres[i].value.day) = timestamp.day
            /\ sres[i].value.hour * 3600 + sres[i].value.minute * 60
                   + sres[i].value.second = timestamp.sod
            /\ C13_IsRounded(sres[i].value.microsecond, timestamp.num, timestamp.bits)

\* C14: a timestamp is converted when its whole seconds fall in years
\* 1..9999, and is rejected with 'Invalid timestamp' when they do not or
\* when it has none (NaN, infinities).
C14_RangeChecked ==
    \A i \in StampImpls :
        sres[i].st # "none" =>
            IF C13_InRange THEN sres[i].st = "ok"
            ELSE sres[i].st = "err" /\ sres[i].msg = MsgInvalidTimestamp


---------------------------------------------------------------------------
(* Claims about the scalar coercers (checked under SpecCoerce).            *)

\* C15: every standalone entry point called with None returns None: it does
\* not raise, and it invokes no parser and no callable.
C15_NoneGivesNone ==
    (depth = 1 /\ obj = PyNone /\ cres # CRun)
        => (cres = COk(PyNone) /\ parsed = <<>> /\ invoked = <<>>)

\* The text a UUID would be read from: what the callable returns, or the
\* object itself.
C16_SourceText ==
    IF IsCallable(obj) /\ ~Call0(obj).raised THEN Call0(obj).value.text ELSE obj.text

\* C16: to_uuid_obj and to_uuid_str return an input that already is a UUID
\* unchanged, and for any other input other than None that does not yield the
\* text of a UUID they return None and never raise, also when a callable
\* source raises or returns something that is not a UUID.
C16_UuidLenient ==
    (entry \in {"to_uuid_obj", "to_uuid_str"} /\ cres # CRun)
        => /\ cres.st = "ok"
           /\ obj.tag = "UUID" => cres.value = obj
           /\ (obj.tag # "UUID" /\ obj # PyNone
                 /\ ~UuidParseStr(C16_SourceText).ok /\ ~UuidParseStr(obj.text).ok)
                => cres.value = PyNone

\* A decimal literal: an optional minus sign, digits, and optionally a point
\* followed by digits.
C17_IsLiteral(s) ==
    LET body == IF StartsWith(s, "-") THEN Tail(s) ELSE s
        dot == IndexOf(body, ".")
    IN IF dot = 0 THEN AllDigits(body)
       ELSE AllDigits(SubSeq(body, 1, dot - 1)) /\ AllDigits(Drop(body, dot))

\* C17: to_decimal on a string uses the string parser only, never the float
\* conversion; a decimal literal gives the decimal with exactly its digits,
\* and any other string is an error.
C17_StringExact ==
    (entry = "to_decimal" /\ depth = 1 /\ obj.tag = "str" /\ cres # CRun)
        => /\ parsed = <<"Decimal::from_str">>
           /\ IF C17_IsLiteral(obj.text)
              THEN cres = COk(PyDecimal(obj.text))
              ELSE cres = CErr("ValueError", MsgInvalidDecimalString \o obj.text)

\* C18: to_decimal returns a Decimal unchanged, and an input that is neither
\* None, a Decimal, a callable, a string nor a float is an error naming the
\* value, never a conversion through the float path.
C18_OtherTypesRejected ==
    (entry = "to_decimal" /\ depth = 1 /\ cres # CRun)
        => /\ obj.tag = "Decimal" => (cres = COk(obj) /\ parsed = <<>>)
           /\ obj.tag \notin {"NoneType", "Decimal", "function", "str", "float"}
                => /\ cres = CErr("ValueError", MsgInvalidDecimal \o obj.text)
                   /\ \A i \in 1..Len(parsed) : parsed[i] # "Decimal::from_f64_retain"

\* C19: one call of a coercer invokes callables at most once in total.
C19_InvokedAtMostOnce ==
    entry \in { "to_string", "to_integer", "to_float", "to_boolean",
                "rst_converters.to_boolean", "to_decimal", "to_uuid_obj",
                "to_uuid_str", "to_uuid" }
        => Len(invoked) <= 1

\* C20: every call of to_integer, to_float and to_decimal eventually returns
\* a value or an error, whatever the callable returns (checked under
\* SpecCoerceFair).
C20_Terminates ==
    entry \in {"to_integer", "to_float", "to_decimal"}
        => <>(cres.st \in {"ok", "err"})


---------------------------------------------------------------------------
(* Claims about sub-second precision in to_datetime (checked under         *)
(* SpecTemporal).                                                          *)

\* The digits of the fraction of a second written in the input: those after
\* the first point of the time of day (<<>> when there is none).
C22_FractionDigits(inp) ==
    LET colon == IndexOf(inp, ":")
        rest == SubSeq(inp, colon + 1, Len(inp))
        dot == IndexOf(rest, ".")
        after == SubSeq(rest, dot + 1, Len(rest))
    IN IF colon = 0 \/ dot = 0 THEN <<>>
       ELSE SubSeq(after, 1, DigitRun(after, Len(after)))

\* The fraction in microseconds: its first six digits, short ones padded.
C22_Micros(inp) ==
    LET ds == C22_FractionDigits(inp)
        six == [i \in 1..6 |-> IF i <= Len(ds) THEN ds[i] ELSE "0"]
    IN Number(six)

C22_IsToDatetime ==
    tres.fn \in {"rs_parsers.to_datetime", "rst_converters.to_datetime"}

\* C22: whichever step of to_datetime accepts an input that carries a
\* fraction of a second, the datetime returned has that fraction as its
\* microsecond field.
C22_FractionPreserved ==
    (C22_IsToDatetime /\ tres.st = "ok" /\ C22_FractionDigits(input) # <<>>)
        => tres.value.microsecond = C22_Micros(input)

\* C26: in the pattern loop of to_datetime the microsecond field is the
\* fraction written in the input, 0 when there is none: the cast of
\* timestamp_micros to 32 bits changes nothing.
C26_CastHarmless ==
    (/\ C22_IsToDatetime
     /\ tres.st = "ok"
     /\ tres.attempts # <<>>
     /\ tres.attempts[Len(tres.attempts)].parser = "NaiveDateTime::parse_from_str")
        => tres.value.microsecond = C22_Micros(input)


(* Claims about the split of a timestamp (checked under SpecStamp).        *)

\* The seconds and microseconds each implementation passes on.
C23_Split ==
    [i \in StampImpls |->
        [s |-> FloorAsI64(timestamp),
         u |-> IF i = "rs_parsers" THEN parsers_microseconds(timestamp)
               ELSE converters_microseconds(timestamp)]]

\* s and u are floor(t) and the rounded fraction, a full second carried.
C23_IsSplit(p) ==
    \/ /\ p.u \in 0..999999
       /\ p.s = FloorAsI64(timestamp)
       /\ C13_IsRounded(p.u, timestamp.num, timestamp.bits)
    \/ /\ p.u = 0
       /\ C13_IsRounded(1000000, timestamp.num, timestamp.bits)
       /\ p.s.sat = "no"
       /\ p.s.day * 86400 + p.s.sod
              = FloorAsI64(timestamp).day * 86400 + FloorAsI64(timestamp).sod + 1

\* C23: for every finite timestamp, negative ones included, each to_timestamp
\* splits it into s = floor(t) and u = round((t - s) * 1e6) with u in
\* 0..999999 (a fraction rounding to a full second is carried into s), and
\* the two implementations compute the same split and return the same
\* datetime.
C23_SameSplit ==
    (timestamp.kind = "finite" /\ \A i \in StampImpls : sres[i].st # "none") =>
        /\ \A i \in StampImpls : C23_IsSplit(C23_Split[i])
        /\ C23_Split["rs_parsers"] = C23_Split["rst_converters"]
        /\ sres["rs_parsers"].st = sres["rst_converters"].st
        /\ sres["rs_parsers"].value = sres["rst_converters"].value

(* Claim about the agreement of the two strtobool (checked under SpecBool). *)

\* C25: on every input the two strtobool implementations either return the
\* same boolean or both fail, the tokens none and null included.
C25_OneTruthTable ==
    (\A i \in BoolImpls : bres[i].st # "none") =>
        /\ bres["rs_parsers"].st = bres["rst_converters"].st
        /\ bres["rs_parsers"].value = bres["rst_converters"].value

(* Claim about inputs no rule of a scalar coercer covers (SpecCoerce).     *)

\* The coercers of strings, booleans, integers and floats, each with the tag
\* of its target type.
C24_Target ==
    [e \in {"to_string", "to_boolean", "rst_converters.to_boolean",
            "to_integer", "to_float"} |->
        CASE e = "to_string" -> "str"
          [] e \in {"to_boolean", "rst_converters.to_boolean"} -> "bool"
          [] e = "to_integer" -> "int"
          [] e = "to_float" -> "float"]

\* The input is covered by a rule of the coercer: None, the target type, a
\* callable, a string, or bytes for to_string.
C24_Covered ==
    \/ obj.tag \in {"NoneType", "function", "str", C24_Target[entry]}
    \/ entry = "to_string" /\ obj.tag = "bytes"

\* C24: a scalar coercer called with an input that is neither None, of the
\* target type, a callable nor a string (nor bytes, for to_string) fails with
\* a coercion error: it never returns a value.
C24_OtherInputsFail ==
    (entry \in DOMAIN C24_Target /\ depth = 1 /\ cres # CRun /\ ~C24_Covered)
        => (cres.st = "err" /\ cres.exc \in {"ValueError", "TypeError"})

(* Claims about the two orchestrators' type tables (checked under Spec).   *)

\* The field of the record an entry of a result reports on.
C21_Field(e) ==
    CHOOSE f \in { record[i] : i \in 1..Len(record) } : f.name = e.name

\* The value is of the declared type, or a string, which coercion may turn
\* into one.
C21_OfDeclaredType(f) == C5_Matches(f) \/ f.value.tag = "str"

C21_OnlyTyped(res) ==
    res.st = "ok" =>
        \A k \in 1..Len(res.list) :
            res.list[k].valid => C21_OfDeclaredType(C21_Field(res.list[k]))

\* C21: in every result of validate_datamodel and of parse_datamodel, a field
\* reported valid holds a value of its declared type (or a string coerced to
\* it): a bool in an int field, or an int in a float field, is never valid.
C21_ValidImpliesTyped == C21_OnlyTyped(vresult) /\ C21_OnlyTyped(presult)

\* The declared type of a field is in the table of validate_field, and in
\* that of FieldType::from_str.
C27_ValidateSupports(f) == validate_field(f.type, f.value).ok
C27_ParseSupports(f) == IsPyType(f.type) /\ FieldTypeFromStr(f.type) # "None"

\* C27: once both orchestrators have run on a record, every field is
\* supported by both or by neither, and when both returned a list they
\* report the same valid flag for every field both list.
C27_OneTypeTable ==
    (vresult.st # "none" /\ presult.st # "none") =>
        /\ \A i \in 1..Len(record) :
              C27_ValidateSupports(record[i]) <=> C27_ParseSupports(record[i])
        /\ (vresult.st = "ok" /\ presult.st = "ok") =>
              \A j \in 1..Len(vresult.list), k \in 1..Len(presult.list) :
                  vresult.list[j].name = presult.list[k].name
                      => vresult.list[j].valid = presult.list[k].valid
=============================================================================
